---- MODULE Spec2Model ----
(***************************************************************************)
(* A model of the graph-algorithm server: the Leader-Follower acceptor     *)
(* pool, the per-algorithm Active Objects and the sender (server.c), the   *)
(* request parser, the graph model and the Euler circuit (graph.c).        *)
(*                                                                         *)
(* The module holds several specifications over disjoint groups of         *)
(* variables; each one keeps the other groups at their initial values:     *)
(*   Spec       the concurrent pipeline (workers, mailboxes, sender)       *)
(*   SpecLive   the pipeline under fair scheduling of its threads           *)
(*   SpecBusy   the same, with handlers of the algorithm AOs that may not  *)
(*              return                                                     *)
(*   SpecSig    the pipeline with the signal a write on a closed socket    *)
(*              raises                                                     *)
(*   SpecOwn    the pipeline with the use of each Request's graph recorded *)
(*   SpecRand   the workers' calls of generate_random_graph under rng_mtx, *)
(*              one srand or rand per step                                 *)
(*   SpecGen    one call of generate_random_graph on an arbitrary source   *)
(*   SpecMem    the allocations on a request's way, each of which may fail *)
(*   SpecGraph  add_edge called with arbitrary arguments on create(V)      *)
(*   SpecParse  handle_client_header_and_dispatch on one connection        *)
(*   SpecEuler  euler_circuit, one loop iteration per step                 *)
(*   SpecMst    mst_weight_prim on weighted graphs                         *)
(*   SpecAlgo   max_clique, count_cliques_3plus, hamilton_cycle and        *)
(*              connected_among_non_isolated on simple graphs              *)
(***************************************************************************)
EXTENDS Integers, Sequences, FiniteSets, TLC

(* ------------------------------ bounds ------------------------------- *)

\* acceptor worker threads (main's nthreads)
NWorkers == 2
\* client connections accepted in one behaviour
MaxConn == 2
\* SpecGraph: the largest vertex count, the largest weight passed and the
\* number of add_edge calls in one behaviour
GMaxV == 3
GMaxW == 2
GMaxCalls == 4
\* SpecEuler: the largest vertex count of the graphs given to euler_circuit
EMaxV == 5
\* SpecMst: the largest vertex count of the graphs given to mst_weight_prim
MMaxV == 3
\* SpecAlgo: the largest vertex count of the graphs given to max_clique,
\* count_cliques_3plus, hamilton_cycle and connected_among_non_isolated
AMaxV == 5
\* SpecParse: the largest number written in a request (E, V, SEED, endpoints)
\* and the largest number of tokens on a header line
PMaxV == 3
MaxHdrTok == 6
\* SpecRand: the largest V and SEED of a random-mode request, the number of
\* random-mode requests in one behaviour, and the number of states of the
\* integer source behind srand and rand
RMaxV == 3
RMaxSeed == 1
RMaxCalls == 3
RandStates == 64
\* SpecGen: the largest V of the graph given to generate_random_graph, and
\* the retried samples counted
NMaxV == 3
NMaxRetry == 2
\* SpecMem: the requests one behaviour takes through the allocations
MemMaxReq == 2
\* SpecQueue: the threads pushing to one mailbox, and the pushes of each
QProducers == 2
QMaxPush == 2
\* SpecStrat: the requests the Leader-Follower workers take up in one behaviour
LFMaxReq == 3

(* ------------------------- program constants ------------------------- *)

\* limits.h, used by parse_int
INT_MAX == 2147483647
\* char *tok[8]: the header tokens kept
HDR_TOK_CAP == 8
\* graph.c: random weights lie in 1..GRAPH_RAND_WMAX
GRAPH_RAND_WMAX == 100

(* ----------------------------- variables ----------------------------- *)

VARIABLES
    \* --- pipeline (server.c, pipeline server) ---
    has_leader,   \* static int has_leader
    lf_waiters,   \* workers blocked in pthread_cond_wait(&lf_cv, &lf_mtx)
    wpc,          \* each worker's position in worker_main
    wcfd,         \* each worker's local cfd (0: none, -1: accept failed)
    nconn,        \* connections accepted so far (the next fd is nconn + 1)
    aoq,          \* each algorithm AO's mailbox (Queue), head first
    aojob,        \* the job an algorithm AO popped and is handling (<<>> or <<R>>)
    sq,           \* AO_SENDER's mailbox
    sjob,         \* the SendTask the sender popped (<<>> or <<S>>)
    spc,          \* the sender's position in handle_send / write_all
    soff,         \* write_all: how much of the text is written (n - left)
    wire,         \* per connection: what write(2) has put on the socket
    log,          \* per connection: who wrote to it or closed it, in order
    enq,          \* per connection: the Requests routed for it, in order, each
                  \* with its place (nth) among all the Requests routed
    tasks,        \* per connection: the SendTasks produced for it, in order
    wfail,        \* the connections on which write_all returned -1
    pushOrder,    \* per AO: the connections in the order their Requests were pushed
    popOrder,     \* per AO: the connections in the order their Requests were popped
    spushOrder,   \* the connections in the order their SendTasks were pushed
    sendOrder,    \* the connections in the order the sender popped their SendTask
    glog,         \* per connection: who created, read and freed its Graph, in order
    \* --- graph model (SpecGraph) ---
    gg,           \* the Graph under construction
    gcalls,       \* add_edge calls made so far
    gret,         \* what the last add_edge_w call returned (-1: none yet)
    \* --- euler_circuit (SpecEuler) ---
    e_g,          \* the graph passed in
    e_pc,         \* position: "entry", "loop", "done"
    e_adj,        \* the working copy of the adjacency matrix
    e_deg,        \* the remaining degree of each vertex
    e_stack,      \* stack[0..top-1], bottom first
    e_stackCap,   \* stackCap
    e_out,        \* out[0..outLen-1]
    e_outCap,     \* outCap
    e_ret,        \* the value returned (-1: not returned yet)
    e_walk,       \* the vertices pushed on the stack, in the order of the pushes
    \* --- handle_client_header_and_dispatch on one connection (SpecParse) ---
    p_hdr,        \* what the first read delivers: a header line, or end of input
    p_pc,         \* position: "header", "edges", "dispatch", "done"
    p_loc,        \* the locals cmd, E, V, seed, want_print and the mode
    p_i,          \* the edge loop's i
    p_g,          \* g: <<>> for NULL or freed, else <<the graph>>
    p_last,       \* what the last read in the edge loop delivered
    p_nread,      \* edge lines read so far
    p_ndup,       \* of them, the lines naming a pair the graph already had
    p_sent,       \* the lines passed to sendf_fd
    p_wire,       \* the lines write(2) put on the socket
    p_closed,     \* close(cfd) calls
    p_freed,      \* free_graph(g) calls
    p_enq,        \* the Requests routed, each with the AO it went to
    \* --- one call of a graph algorithm (SpecMst, SpecAlgo) ---
    a_g,          \* the Graph passed
    a_fn,         \* the function called ("none" before the call)
    a_ret,        \* what it returned
    \* --- random mode in the acceptor workers (SpecRand) ---
    rng_state,    \* the state of the process-wide source behind srand/rand
    rng_mtx,      \* the worker holding rng_mtx, 0 when it is free
    r_pc,         \* per worker: its position around generate_random_graph
    r_args,       \* per worker: E, V and SEED of its request
    r_g,          \* per worker: the graph it is filling
    r_smp,        \* per worker: the rand() values of the current iteration
    r_done,       \* the calls that returned: E, V, SEED and the graph built
    r_calls,      \* random-mode requests so far
    \* --- one call of generate_random_graph (SpecGen) ---
    n_g,          \* g
    n_targetE,    \* targetE
    n_pc,         \* "loop" inside the while loop, "done" after the return
    n_smp,        \* u, v and w of the last iteration, <<>> before the first
    n_retry,      \* iterations that added no edge (counted up to NMaxRetry)
    \* --- the allocations on a request's way (SpecMem) ---
    m_cmd,        \* the algorithm of the request on its way
    m_print,      \* whether it carries -p
    m_pc,         \* the allocation the request has come to
    m_proc,       \* "running", or "exited" once the process has terminated
    m_failed,     \* the allocations that failed so far
    m_n,          \* requests started
    ao_sent,      \* per algorithm AO: its handler has pushed the SendTask and not yet returned
    \* --- one Queue, its pushing threads and its popping thread (SpecQueue) ---
    q_hd,         \* q->head: a node, 0 for NULL
    q_tl,         \* q->tail: a node, 0 for NULL
    q_next,       \* per node: n->next
    q_item,       \* per node: n->item
    q_mtx,        \* the thread holding q->mtx, 0 when it is free
    q_waiting,    \* the popping thread is blocked in pthread_cond_wait on q->cv
    q_pc,         \* per thread: its position in q_push or q_pop
    q_n,          \* per thread: its local n
    q_count,      \* per pushing thread: the pushes it has started
    q_pushed,     \* the items pushed, in the order the pushes got the mutex
    q_popped,     \* the items q_pop returned, in order
    \* --- the Leader-Follower server's handle_client and make_strategy (SpecStrat) ---
    strat,        \* make_strategy's static AlgoStrategy: name and run
    hc_pc,        \* per worker: its position in handle_client
    hc_cmd,       \* per worker: tok[0] of its request
    hc_S,         \* per worker: S, "NULL" or "&strat"
    hc_ran,       \* per worker: the requests it finished, each with the function that ran
    hc_n          \* requests taken up so far

pipeVars == <<has_leader, lf_waiters, wpc, wcfd, nconn, aoq, aojob, sq, sjob,
              spc, soff, wire, log, enq, tasks, wfail, pushOrder, popOrder,
              spushOrder, sendOrder, glog>>

graphVars == <<gg, gcalls, gret>>

eulerVars == <<e_g, e_pc, e_adj, e_deg, e_stack, e_stackCap, e_out, e_outCap, e_ret,
              e_walk>>

parseVars == <<p_hdr, p_pc, p_loc, p_i, p_g, p_last, p_nread, p_ndup, p_sent, p_wire,
               p_closed, p_freed, p_enq>>

algoVars == <<a_g, a_fn, a_ret>>

randVars == <<rng_state, rng_mtx, r_pc, r_args, r_g, r_smp, r_done, r_calls>>

genVars == <<n_g, n_targetE, n_pc, n_smp, n_retry>>

memVars == <<m_cmd, m_print, m_pc, m_proc, m_failed, m_n>>

fineVars == <<ao_sent>>

stratVars == <<strat, hc_pc, hc_cmd, hc_S, hc_ran, hc_n>>

queueVars == <<q_hd, q_tl, q_next, q_item, q_mtx, q_waiting, q_pc, q_n, q_count, q_pushed,
               q_popped>>

vars == <<pipeVars, graphVars, eulerVars, parseVars, algoVars, randVars, genVars, memVars, fineVars, queueVars, stratVars>>

\* what the actions of one specification leave alone
nonPipeVars  == <<graphVars, eulerVars, parseVars, algoVars, randVars, genVars, memVars, fineVars, queueVars, stratVars>>
nonGraphVars == <<pipeVars, eulerVars, parseVars, algoVars, randVars, genVars, memVars, fineVars, queueVars, stratVars>>
nonEulerVars == <<pipeVars, graphVars, parseVars, algoVars, randVars, genVars, memVars, fineVars, queueVars, stratVars>>
nonParseVars == <<pipeVars, graphVars, eulerVars, algoVars, randVars, genVars, memVars, fineVars, queueVars, stratVars>>
nonAlgoVars  == <<pipeVars, graphVars, eulerVars, parseVars, randVars, genVars, memVars, fineVars, queueVars, stratVars>>
nonRandVars  == <<pipeVars, graphVars, eulerVars, parseVars, algoVars, genVars, memVars, fineVars, queueVars, stratVars>>
nonGenVars   == <<pipeVars, graphVars, eulerVars, parseVars, algoVars, randVars, memVars, fineVars, queueVars, stratVars>>
nonPipeFineVars == <<graphVars, eulerVars, parseVars, algoVars, randVars, genVars, memVars, queueVars, stratVars>>
nonQueueVars == <<pipeVars, graphVars, eulerVars, parseVars, algoVars, randVars, genVars, memVars, fineVars, stratVars>>
nonStratVars == <<pipeVars, graphVars, eulerVars, parseVars, algoVars, randVars, genVars, memVars, fineVars, queueVars>>
nonMemVars   == <<pipeVars, graphVars, eulerVars, parseVars, algoVars, randVars, genVars, fineVars, queueVars, stratVars>>

(* ------------------------- the pipeline server ----------------------- *)

Workers == 1..NWorkers
Conns   == 1..MaxConn

\* typedef enum { CMD_EULER, ... } AlgoCmd, in declaration order
AlgoCmd == <<"EULER", "MST", "MAXCLIQUE", "COUNTCLQ3P", "HAMILTON">>
Cmds    == {AlgoCmd[i] : i \in 1..Len(AlgoCmd)}
\* the commands the modelled clients send
ClientCmds == {"EULER", "MST"}

\* static ActiveObject AO_EULER, AO_MST, AO_MAXCLQ, AO_CNTCLQ3P, AO_HAM
AlgoAOs == {"AO_EULER", "AO_MST", "AO_MAXCLQ", "AO_CNTCLQ3P", "AO_HAM"}

\* a variant of main that starts AO_EULER with handle_mst and AO_MST with
\* handle_euler
ao_handle_swapped(ao) ==
    CASE ao = "AO_EULER"    -> "MST"
      [] ao = "AO_MST"      -> "EULER"
      [] ao = "AO_MAXCLQ"   -> "MAXCLIQUE"
      [] ao = "AO_CNTCLQ3P" -> "COUNTCLQ3P"
      [] ao = "AO_HAM"      -> "HAMILTON"

\* main: ao_start(&AO_X, name, handle_x) binds each AO to its handler; the
\* handler runs one algorithm, named here by its command
ao_handle(ao) ==
    CASE ao = "AO_EULER"    -> "EULER"
      [] ao = "AO_MST"      -> "MST"
      [] ao = "AO_MAXCLQ"   -> "MAXCLIQUE"
      [] ao = "AO_CNTCLQ3P" -> "COUNTCLQ3P"
      [] ao = "AO_HAM"      -> "HAMILTON"

\* a variant of route_to_ao that pushes every Request into one mailbox
route_to_ao_single_mailbox(cmd) == "AO_EULER"

\* route_to_ao: the switch on R->cmd; "none" is the default branch
route_to_ao(cmd) ==
    CASE cmd = "EULER"      -> "AO_EULER"
      [] cmd = "MST"        -> "AO_MST"
      [] cmd = "MAXCLIQUE"  -> "AO_MAXCLQ"
      [] cmd = "COUNTCLQ3P" -> "AO_CNTCLQ3P"
      [] cmd = "HAMILTON"   -> "AO_HAM"
      [] OTHER              -> "none"

\* Pieces of response text.  g names the graph built for a connection; the
\* body is the text the handler of algorithm algo assembles from graph g.
PrefixText(g)     == [k |-> "prefix", algo |-> "", g |-> g]
BodyText(algo, g) == [k |-> "body", algo |-> algo, g |-> g]
ErrText           == [k |-> "ERR", algo |-> "", g |-> 0]

\* a variant of make_prefix_if_p that prints the graph as create_graph left it
make_prefix_before_edges(g, want_print) ==
    IF want_print
      THEN <<PrefixText([g EXCEPT !.E = 0,
                                  !.adj = [i \in 0..(g.V - 1) |-> [j \in 0..(g.V - 1) |-> 0]]])>>
      ELSE <<>>

\* make_prefix_if_p: NULL (the empty text) unless -p was given
make_prefix_if_p(g, want_print) == IF want_print THEN <<PrefixText(g)>> ELSE <<>>

\* typedef struct { int cfd; AlgoCmd cmd; Graph *g; char *prefix; } Request
Request(cfd, cmd, g, prefix) == [cfd |-> cfd, cmd |-> cmd, g |-> g, prefix |-> prefix]
\* typedef struct { int cfd; char *text; } SendTask
SendTask(cfd, text) == [cfd |-> cfd, text |-> text]

Ev(who, op) == [who |-> who, op |-> op]

\* a variant of q_push that inserts at the head
q_push_front(q, item) == <<item>> \o q

\* q_push: append at the tail
q_push(q, item) == Append(q, item)
\* a variant of q_pop that unlinks the whole list with the head node
q_rest_drop_all(q) == <<>>

\* a variant of q_pop that leaves the head node linked
q_rest_keep(q) == q

\* q_pop: the item at the head, and the queue without it
q_head(q) == Head(q)
q_rest(q) == Tail(q)

\* a variant of emit_and_send that leaves the prefix out
emit_and_send_body_only(R, body) == SendTask(R.cfd, <<body>>)

\* emit_and_send: the SendTask built from a Request and the body
emit_and_send(R, body) == SendTask(R.cfd, R.prefix \o <<body>>)

\* a variant of the wait loop that tests has_leader once, before the wait
\* only ("if" for "while")
lf_must_wait_if(pc, hl) == hl # 0 /\ pc # "woken"

\* worker_main, line 421: while (has_leader) pthread_cond_wait(...): the test
\* is made on arrival and again after every return of the wait
lf_must_wait(pc, hl) == hl # 0

\* a variant of route_to_ao that closes the socket whatever the command
route_to_ao_close_always(ao) == <<Ev("worker", "close")>>

\* route_to_ao: what it does to the socket itself: nothing when the Request
\* is pushed to an AO, close(R->cfd) in the default branch
route_to_ao_close(ao) == IF ao = "none" THEN <<Ev("worker", "close")>> ELSE <<>>

\* a variant of handle_send that returns early when the write failed
handle_send_close_if_written(failed) ==
    IF failed THEN <<>> ELSE <<Ev("sender", "close")>>

\* handle_send, lines 193-194: the result of write_all is dropped and the
\* socket is closed either way
handle_send_close(failed) == <<Ev("sender", "close")>>

PipeInit ==
    /\ has_leader = 0
    /\ lf_waiters = {}
    /\ wpc = [w \in Workers |-> "top"]
    /\ wcfd = [w \in Workers |-> 0]
    /\ nconn = 0
    /\ aoq = [a \in AlgoAOs |-> <<>>]
    /\ aojob = [a \in AlgoAOs |-> <<>>]
    /\ sq = <<>>
    /\ sjob = <<>>
    /\ spc = "pop"
    /\ soff = 0
    /\ wire = [c \in Conns |-> <<>>]
    /\ log = [c \in Conns |-> <<>>]
    /\ enq = [c \in Conns |-> <<>>]
    /\ tasks = [c \in Conns |-> <<>>]
    /\ wfail = {}
    /\ pushOrder = [a \in AlgoAOs |-> <<>>]
    /\ popOrder = [a \in AlgoAOs |-> <<>>]
    /\ spushOrder = <<>>
    /\ sendOrder = <<>>
    /\ glog = [c \in Conns |-> <<>>]

\* worker_main, lines 420-423: lock; while (has_leader) wait; has_leader = 1; unlock.
\* A worker that finds a leader blocks in the condition wait.
LeaderEnter(w) ==
    /\ wpc[w] \in {"top", "woken"}
    /\ IF lf_must_wait(wpc[w], has_leader)
         THEN /\ lf_waiters' = lf_waiters \cup {w}
              /\ wpc' = [wpc EXCEPT ![w] = "wait"]
              /\ UNCHANGED has_leader
         ELSE /\ has_leader' = 1
              /\ wpc' = [wpc EXCEPT ![w] = "accept"]
              /\ UNCHANGED lf_waiters
    /\ UNCHANGED <<nonPipeVars, glog, wcfd, nconn, aoq, aojob, sq, sjob, spc, soff, wire, log, enq,
                   tasks, wfail, pushOrder, popOrder,
                   spushOrder, sendOrder>>

\* pthread_cond_wait may return without a signal (POSIX spurious wake-up)
SpuriousWake(w) ==
    /\ wpc[w] = "wait"
    /\ lf_waiters' = lf_waiters \ {w}
    /\ wpc' = [wpc EXCEPT ![w] = "woken"]
    /\ UNCHANGED <<nonPipeVars, glog, has_leader, wcfd, nconn, aoq, aojob, sq, sjob, spc, soff, wire,
                   log, enq, tasks, wfail, pushOrder, popOrder,
                   spushOrder, sendOrder>>

\* worker_main, lines 425-426: accept returns a new connection or fails.  It
\* returns, either way, only while clients are still to come; after the last
\* of the MaxConn clients the leader stays blocked in accept.
Accept(w) ==
    /\ wpc[w] = "accept"
    /\ nconn < MaxConn
    /\ \/ /\ nconn' = nconn + 1
          /\ wcfd' = [wcfd EXCEPT ![w] = nconn + 1]
       \/ /\ wcfd' = [wcfd EXCEPT ![w] = -1]
          /\ UNCHANGED nconn
    /\ wpc' = [wpc EXCEPT ![w] = "release"]
    /\ UNCHANGED <<nonPipeVars, glog, has_leader, lf_waiters, aoq, aojob, sq, sjob, spc, soff, wire,
                   log, enq, tasks, wfail, pushOrder, popOrder,
                   spushOrder, sendOrder>>

\* a variant of the handoff that keeps the leadership when accept failed
lf_handoff_on_success_only(cfd) == IF cfd < 0 THEN 1 ELSE 0

\* a variant of the handoff that keeps the leadership when accept succeeded
lf_handoff_on_failure_only(cfd) == IF cfd < 0 THEN 0 ELSE 1

\* worker_main, line 429: has_leader = 0, whatever accept returned
lf_handoff(cfd) == 0

\* a variant of the handoff that does not signal lf_cv
lf_cv_signal_none(waiters) == {}

\* worker_main, line 430: pthread_cond_signal(&lf_cv): the workers of which
\* one is released, any of those blocked on the condition
lf_cv_signal(waiters) == waiters

\* worker_main, lines 428-433: has_leader = 0; signal one waiter; then either
\* back to the top (accept failed) or on to the connection
LeaderRelease(w) ==
    /\ wpc[w] = "release"
    /\ has_leader' = lf_handoff(wcfd[w])
    /\ IF lf_cv_signal(lf_waiters) = {}
         THEN /\ wpc' = [wpc EXCEPT ![w] = IF wcfd[w] < 0 THEN "top" ELSE "handle"]
              /\ UNCHANGED lf_waiters
         ELSE \E x \in lf_cv_signal(lf_waiters) :
              /\ lf_waiters' = lf_waiters \ {x}
              /\ wpc' = [wpc EXCEPT ![w] = IF wcfd[w] < 0 THEN "top" ELSE "handle",
                                    ![x] = "woken"]
    /\ wcfd' = [wcfd EXCEPT ![w] = IF wcfd[w] < 0 THEN 0 ELSE wcfd[w]]
    /\ UNCHANGED <<nonPipeVars, glog, nconn, aoq, aojob, sq, sjob, spc, soff, wire, log, enq, tasks,
                   wfail, pushOrder, popOrder,
                   spushOrder, sendOrder>>

\* What an error path of handle_client_header_and_dispatch does to its
\* connection: sendf_fd one ERR text (write_all's result is dropped, so a
\* failed write leaves nothing on the socket), then close(cfd).
ErrorPath(c, delivered) ==
    /\ wire' = [wire EXCEPT ![c] = IF delivered THEN @ \o <<ErrText>> ELSE @]
    /\ log' = [log EXCEPT ![c] = @ \o <<Ev("worker", "write"), Ev("worker", "close")>>]

\* read_line_req(...) <= 0, and the Request malloc failure: close(cfd) only
ClosePath(c) ==
    /\ log' = [log EXCEPT ![c] = Append(@, Ev("worker", "close"))]
    /\ UNCHANGED wire

\* What the worker does to the Graph of its request.  An error path reached
\* before create_graph touches none; one reached after it (a bad edge line,
\* the Request malloc failure) frees the graph it created.
worker_builds_and_frees(built) ==
    IF built THEN <<Ev("worker", "create"), Ev("worker", "free")>> ELSE <<>>

\* create_graph and the edge insertions, then make_prefix_if_p, which reads
\* the graph when -p was given
worker_builds(want_print) ==
    <<Ev("worker", "create")>> \o (IF want_print THEN <<Ev("worker", "read")>> ELSE <<>>)

\* a variant of the return path that reads R->g after route_to_ao
worker_after_route_reads(c) == <<Ev("worker", "read")>>

\* lines 414-415: nothing follows route_to_ao(R)
worker_after_route(c) == <<>>

\* the handler of AO a reads R->g (its algorithm), and emit_and_send frees it
\* after the SendTask is pushed
ao_handler_graph_use(a) == <<Ev(a, "read"), Ev(a, "free")>>

\* handle_client_header_and_dispatch, seen from the pipeline: the header read
\* fails, or the request is rejected, or the Request cannot be allocated, or
\* the Request is built and routed.
HandleClientFrom(w, track, cmds) ==
    /\ wpc[w] = "handle"
    /\ LET c == wcfd[w] IN
       \/ /\ ClosePath(c)
          /\ \E built \in {track, FALSE} :
                glog' = [glog EXCEPT ![c] = worker_builds_and_frees(built)]
          /\ wpc' = [wpc EXCEPT ![w] = "top"]
          /\ wcfd' = [wcfd EXCEPT ![w] = 0]
          /\ UNCHANGED <<aoq, enq, pushOrder>>
       \/ /\ \E delivered \in BOOLEAN : ErrorPath(c, delivered)
          /\ \E built \in {track, FALSE} :
                glog' = [glog EXCEPT ![c] = worker_builds_and_frees(built)]
          /\ wpc' = [wpc EXCEPT ![w] = "top"]
          /\ wcfd' = [wcfd EXCEPT ![w] = 0]
          /\ UNCHANGED <<aoq, enq, pushOrder>>
       \/ \E cmd \in cmds, want_print \in BOOLEAN :
            LET R  == Request(c, cmd, c, make_prefix_if_p(c, want_print))
                ao == route_to_ao(R.cmd)
            IN  /\ IF ao = "none"
                     THEN /\ glog' = [glog EXCEPT ![c] =
                                        IF track THEN worker_builds(want_print)
                                                        \o <<Ev("worker", "free")>>
                                                 ELSE @]
                          /\ wpc' = [wpc EXCEPT ![w] = "top"]
                          /\ wcfd' = [wcfd EXCEPT ![w] = 0]
                          /\ UNCHANGED <<aoq, enq, pushOrder>>
                     ELSE /\ aoq' = [aoq EXCEPT ![ao] = q_push(@, R)]
                          /\ enq' = [enq EXCEPT ![c] =
                                       Append(@, [R |-> R, want_print |-> want_print,
                                                  nth |-> 1 + Cardinality(
                                                      {d \in Conns : enq[d] # <<>>})])]
                          /\ pushOrder' = [pushOrder EXCEPT ![ao] = Append(@, c)]
                          /\ glog' = [glog EXCEPT ![c] =
                                        IF track THEN worker_builds(want_print) ELSE @]
                          /\ wpc' = [wpc EXCEPT ![w] = IF track THEN "routed" ELSE "top"]
                          /\ wcfd' = [wcfd EXCEPT ![w] = IF track THEN @ ELSE 0]
                /\ log' = [log EXCEPT ![c] = @ \o route_to_ao_close(ao)]
                /\ UNCHANGED wire
    /\ UNCHANGED <<nonPipeVars, has_leader, lf_waiters, nconn, aojob, sq, sjob, spc, soff,
                   tasks, wfail, popOrder, spushOrder, sendOrder>>

\* the same with the clients sending two of the commands
HandleClientStep(w, track) == HandleClientFrom(w, track, ClientCmds)

\* the same with the clients sending any of the five commands
HandleClientAny(w) == HandleClientFrom(w, FALSE, Cmds)

\* the pipeline's view of the call: the use of the graph is not recorded
HandleClient(w) == HandleClientStep(w, FALSE)

\* the same call with the use of the graph recorded, up to the push of
\* route_to_ao; the return follows as a step of its own
HandleClientOwn(w) == HandleClientStep(w, TRUE)

\* handle_client_header_and_dispatch, lines 414-415, and worker_main: after
\* route_to_ao has pushed the Request both functions return to the top of the
\* worker's loop
WorkerReturn(w) ==
    /\ wpc[w] = "routed"
    /\ glog' = [glog EXCEPT ![wcfd[w]] = @ \o worker_after_route(wcfd[w])]
    /\ wpc' = [wpc EXCEPT ![w] = "top"]
    /\ wcfd' = [wcfd EXCEPT ![w] = 0]
    /\ UNCHANGED <<nonPipeVars, has_leader, lf_waiters, nconn, aoq, aojob, sq, sjob, spc,
                   soff, wire, log, enq, tasks, wfail, pushOrder, popOrder, spushOrder,
                   sendOrder>>

\* ao_thread_main: job = q_pop(&ao->q)
AoPop(a) ==
    /\ aojob[a] = <<>>
    /\ aoq[a] # <<>>
    /\ aojob' = [aojob EXCEPT ![a] = <<q_head(aoq[a])>>]
    /\ aoq' = [aoq EXCEPT ![a] = q_rest(@)]
    /\ popOrder' = [popOrder EXCEPT ![a] = Append(@, q_head(aoq[a]).cfd)]
    /\ UNCHANGED <<nonPipeVars, glog, has_leader, lf_waiters, wpc, wcfd, nconn, sq, sjob, spc, soff,
                   wire, log, enq, tasks, wfail, pushOrder, spushOrder, sendOrder>>

\* ao->handle(ao, job): the AO's handler runs its algorithm on R->g, and
\* emit_and_send pushes the SendTask to AO_SENDER and frees the Request
AoHandleStep(a, track) ==
    /\ aojob[a] # <<>>
    /\ LET R == aojob[a][1]
           S == emit_and_send(R, BodyText(ao_handle(a), R.g))
       IN  /\ sq' = q_push(sq, S)
           /\ tasks' = [tasks EXCEPT ![R.cfd] = Append(@, S)]
           /\ spushOrder' = Append(spushOrder, R.cfd)
           /\ glog' = [glog EXCEPT ![R.cfd] =
                         IF track THEN @ \o ao_handler_graph_use(a) ELSE @]
    /\ aojob' = [aojob EXCEPT ![a] = <<>>]
    /\ UNCHANGED <<nonPipeVars, has_leader, lf_waiters, wpc, wcfd, nconn, aoq, sjob, spc, soff,
                   wire, log, enq, wfail, pushOrder, popOrder, sendOrder>>

AoHandle(a) == AoHandleStep(a, FALSE)

\* the same handler with its use of the graph recorded
AoHandleOwn(a) == AoHandleStep(a, TRUE)

\* the sender's ao_thread_main: job = q_pop(&AO_SENDER.q), and handle_send
\* enters write_all(s->cfd, s->text, strlen(s->text)) with left = n
SenderPop ==
    /\ spc = "pop"
    /\ sq # <<>>
    /\ sjob' = <<q_head(sq)>>
    /\ sq' = q_rest(sq)
    /\ soff' = 0
    /\ spc' = "write"
    /\ sendOrder' = Append(sendOrder, q_head(sq).cfd)
    /\ log' = [log EXCEPT ![q_head(sq).cfd] = Append(@, Ev("sender", "write"))]
    /\ UNCHANGED <<nonPipeVars, glog, has_leader, lf_waiters, wpc, wcfd, nconn, aoq, aojob, wire,
                   enq, tasks, wfail, pushOrder, popOrder, spushOrder>>

\* handle_send -> write_all: one turn of the loop.  write(2) puts some of what
\* is left on the socket (a short write puts less than all), or is interrupted
\* (EINTR: try again), or fails (return -1); with nothing left, return 0.
SenderWrite ==
    /\ spc = "write"
    /\ LET S    == sjob[1]
           left == Len(S.text) - soff
       IN  IF left = 0
             THEN /\ spc' = "close"
                  /\ UNCHANGED <<soff, wire, wfail>>
             ELSE \/ \E n \in 1..left :
                       /\ wire' = [wire EXCEPT ![S.cfd] =
                                     @ \o SubSeq(S.text, soff + 1, soff + n)]
                       /\ soff' = soff + n
                       /\ UNCHANGED <<spc, wfail>>
                  \/ UNCHANGED <<spc, soff, wire, wfail>>
                  \/ /\ spc' = "close"
                     /\ wfail' = wfail \cup {S.cfd}
                     /\ UNCHANGED <<soff, wire>>
    /\ UNCHANGED <<nonPipeVars, glog, has_leader, lf_waiters, wpc, wcfd, nconn, aoq, aojob, sq, sjob,
                   log, enq, tasks, pushOrder, popOrder, spushOrder, sendOrder>>

\* handle_send, lines 194-196: close(s->cfd); free the text and the task
SenderClose ==
    /\ spc = "close"
    /\ log' = [log EXCEPT ![sjob[1].cfd] =
                   @ \o handle_send_close(sjob[1].cfd \in wfail)]
    /\ sjob' = <<>>
    /\ spc' = "pop"
    /\ UNCHANGED <<nonPipeVars, glog, has_leader, lf_waiters, wpc, wcfd, nconn, aoq, aojob, sq, soff,
                   wire, enq, tasks, wfail, pushOrder, popOrder, spushOrder, sendOrder>>

PipeNext ==
    \/ \E w \in Workers : LeaderEnter(w)
    \/ \E w \in Workers : SpuriousWake(w)
    \/ \E w \in Workers : Accept(w)
    \/ \E w \in Workers : LeaderRelease(w)
    \/ \E w \in Workers : HandleClient(w)
    \/ \E a \in AlgoAOs : AoPop(a)
    \/ \E a \in AlgoAOs : AoHandle(a)
    \/ SenderPop
    \/ SenderWrite
    \/ SenderClose

(* ------------- the algorithm handlers, statement by statement -------- *)

\* between two requests no handler is inside emit_and_send
FineIdle == ao_sent = [a \in AlgoAOs |-> FALSE]

\* handle_x up to emit_and_send's q_push(&AO_SENDER.q, S): the algorithm has
\* run on R->g and the SendTask is in the sender's mailbox; the Request is
\* still allocated and still the job of this AO
AoEmit(a) ==
    /\ aojob[a] # <<>>
    /\ ~ao_sent[a]
    /\ LET R == aojob[a][1]
           S == emit_and_send(R, BodyText(ao_handle(a), R.g))
       IN  /\ sq' = q_push(sq, S)
           /\ tasks' = [tasks EXCEPT ![R.cfd] = Append(@, S)]
           /\ spushOrder' = Append(spushOrder, R.cfd)
    /\ ao_sent' = [ao_sent EXCEPT ![a] = TRUE]
    /\ UNCHANGED nonPipeFineVars
    /\ UNCHANGED <<glog, has_leader, lf_waiters, wpc, wcfd, nconn, aoq, aojob, sjob, spc,
                   soff, wire, log, enq, wfail, pushOrder, popOrder, sendOrder>>

\* emit_and_send after the push: free(R->prefix), free_graph(R->g), free(R),
\* and the handler returns to ao_thread_main's loop
AoReturn(a) ==
    /\ ao_sent[a]
    /\ aojob' = [aojob EXCEPT ![a] = <<>>]
    /\ ao_sent' = [ao_sent EXCEPT ![a] = FALSE]
    /\ UNCHANGED nonPipeFineVars
    /\ UNCHANGED <<glog, has_leader, lf_waiters, wpc, wcfd, nconn, aoq, sq, sjob, spc, soff,
                   wire, log, enq, tasks, wfail, pushOrder, popOrder, spushOrder, sendOrder>>

\* the pipeline with requests for all five algorithms
RouteNext ==
    \/ \E w \in Workers : LeaderEnter(w)
    \/ \E w \in Workers : SpuriousWake(w)
    \/ \E w \in Workers : Accept(w)
    \/ \E w \in Workers : LeaderRelease(w)
    \/ \E w \in Workers : HandleClientAny(w)
    \/ \E a \in AlgoAOs : AoPop(a)
    \/ \E a \in AlgoAOs : AoHandle(a)
    \/ SenderPop
    \/ SenderWrite
    \/ SenderClose

\* the pipeline with each handler in two steps
FineNext ==
    \/ \E w \in Workers : LeaderEnter(w)
    \/ \E w \in Workers : SpuriousWake(w)
    \/ \E w \in Workers : Accept(w)
    \/ \E w \in Workers : LeaderRelease(w)
    \/ \E w \in Workers : HandleClient(w)
    \/ \E a \in AlgoAOs : AoPop(a)
    \/ \E a \in AlgoAOs : AoEmit(a)
    \/ \E a \in AlgoAOs : AoReturn(a)
    \/ SenderPop
    \/ SenderWrite
    \/ SenderClose

\* handle_send -> write_all: write(2) on a socket whose peer is gone fails
\* with EPIPE and raises SIGPIPE; main installs no handler and ignores no
\* signal, so the process is terminated inside the call
SenderSigpipe ==
    /\ spc = "write"
    /\ Len(sjob[1].text) - soff > 0
    /\ spc' = "killed"
    /\ UNCHANGED <<nonPipeVars, glog, has_leader, lf_waiters, wpc, wcfd, nconn, aoq, aojob, sq, sjob,
                   soff, wire, wfail, log, enq, tasks, pushOrder, popOrder, spushOrder,
                   sendOrder>>

\* no thread takes a step once the process is terminated
Running == spc # "killed"

\* the pipeline with the signal write(2) may raise
SigNext ==
    \/ \E w \in Workers : Running /\ LeaderEnter(w)
    \/ \E w \in Workers : Running /\ SpuriousWake(w)
    \/ \E w \in Workers : Running /\ Accept(w)
    \/ \E w \in Workers : Running /\ LeaderRelease(w)
    \/ \E w \in Workers : Running /\ HandleClient(w)
    \/ \E a \in AlgoAOs : Running /\ AoPop(a)
    \/ \E a \in AlgoAOs : Running /\ AoHandle(a)
    \/ SenderPop
    \/ SenderWrite
    \/ SenderClose
    \/ SenderSigpipe

\* the pipeline with the use of each Request's graph recorded
OwnNext ==
    \/ \E w \in Workers : LeaderEnter(w)
    \/ \E w \in Workers : SpuriousWake(w)
    \/ \E w \in Workers : Accept(w)
    \/ \E w \in Workers : LeaderRelease(w)
    \/ \E w \in Workers : HandleClientOwn(w)
    \/ \E w \in Workers : WorkerReturn(w)
    \/ \E a \in AlgoAOs : AoPop(a)
    \/ \E a \in AlgoAOs : AoHandleOwn(a)
    \/ SenderPop
    \/ SenderWrite
    \/ SenderClose

(* --------------------------- the graph model ------------------------- *)

\* create_graph: V vertices, no edge, both matrices zero (calloc)
create_graph(V) ==
    [V |-> V, E |-> 0,
     adj |-> [i \in 0..(V - 1) |-> [j \in 0..(V - 1) |-> 0]],
     w   |-> [i \in 0..(V - 1) |-> [j \in 0..(V - 1) |-> 0]]]

\* a variant of add_edge_w without the test for an edge already present
add_edge_w_no_dup_test(g, u, v, w) ==
    IF u < 0 \/ v < 0 \/ u >= g.V \/ v >= g.V THEN [g |-> g, ret |-> 0]
    ELSE IF u = v THEN [g |-> g, ret |-> 0]
    ELSE IF w <= 0 THEN [g |-> g, ret |-> 0]
    ELSE [g |-> [g EXCEPT !.adj = [@ EXCEPT ![u] = [@ EXCEPT ![v] = 1],
                                            ![v] = [@ EXCEPT ![u] = 1]],
                          !.w   = [@ EXCEPT ![u] = [@ EXCEPT ![v] = w],
                                            ![v] = [@ EXCEPT ![u] = w]],
                          !.E   = @ + 1],
          ret |-> 1]

\* a variant of add_edge_w that stores the weight of a pair already present
add_edge_w_last_weight(g, u, v, w) ==
    IF u < 0 \/ v < 0 \/ u >= g.V \/ v >= g.V THEN [g |-> g, ret |-> 0]
    ELSE IF u = v THEN [g |-> g, ret |-> 0]
    ELSE IF w <= 0 THEN [g |-> g, ret |-> 0]
    ELSE IF g.adj[u][v] # 0
      THEN [g |-> [g EXCEPT !.w = [@ EXCEPT ![u] = [@ EXCEPT ![v] = w],
                                            ![v] = [@ EXCEPT ![u] = w]]],
            ret |-> 0]
    ELSE [g |-> [g EXCEPT !.adj = [@ EXCEPT ![u] = [@ EXCEPT ![v] = 1],
                                            ![v] = [@ EXCEPT ![u] = 1]],
                          !.w   = [@ EXCEPT ![u] = [@ EXCEPT ![v] = w],
                                            ![v] = [@ EXCEPT ![u] = w]],
                          !.E   = @ + 1],
          ret |-> 1]

\* add_edge_w: the graph after the call, and the value returned
add_edge_w(g, u, v, w) ==
    IF u < 0 \/ v < 0 \/ u >= g.V \/ v >= g.V THEN [g |-> g, ret |-> 0]
    ELSE IF u = v THEN [g |-> g, ret |-> 0]
    ELSE IF w <= 0 THEN [g |-> g, ret |-> 0]
    ELSE IF g.adj[u][v] # 0 THEN [g |-> g, ret |-> 0]
    ELSE [g |-> [g EXCEPT !.adj = [@ EXCEPT ![u] = [@ EXCEPT ![v] = 1],
                                            ![v] = [@ EXCEPT ![u] = 1]],
                          !.w   = [@ EXCEPT ![u] = [@ EXCEPT ![v] = w],
                                            ![v] = [@ EXCEPT ![u] = w]],
                          !.E   = @ + 1],
          ret |-> 1]

\* add_edge_local (the Leader-Follower server's copy): the same checks, no
\* return value
add_edge_local(g, u, v, w) ==
    IF u < 0 \/ v < 0 \/ u >= g.V \/ v >= g.V THEN g
    ELSE IF u = v THEN g
    ELSE IF w <= 0 THEN g
    ELSE IF g.adj[u][v] # 0 THEN g
    ELSE [g EXCEPT !.adj = [@ EXCEPT ![u] = [@ EXCEPT ![v] = 1],
                                     ![v] = [@ EXCEPT ![u] = 1]],
                   !.w   = [@ EXCEPT ![u] = [@ EXCEPT ![v] = w],
                                     ![v] = [@ EXCEPT ![u] = w]],
                   !.E   = @ + 1]

\* degree: the row sum
RECURSIVE RowSum(_, _)
RowSum(row, n) == IF n = 0 THEN 0 ELSE row[n - 1] + RowSum(row, n - 1)
degree(g, u) == RowSum(g.adj[u], g.V)

\* the arguments a caller may pass: in range, one below, one above
GArgs(V) == (-1)..V
GWeights == (-1)..GMaxW

GraphInit ==
    /\ \E V \in 1..GMaxV : gg = create_graph(V)
    /\ gcalls = 0
    /\ gret = -1

GraphIdle ==
    /\ gg = create_graph(1)
    /\ gcalls = 0
    /\ gret = -1

CallAddEdgeW ==
    /\ gcalls < GMaxCalls
    /\ \E u \in GArgs(gg.V), v \in GArgs(gg.V), w \in GWeights :
         LET r == add_edge_w(gg, u, v, w)
         IN  /\ gg' = r.g
             /\ gret' = r.ret
    /\ gcalls' = gcalls + 1
    /\ UNCHANGED nonGraphVars

CallAddEdgeLocal ==
    /\ gcalls < GMaxCalls
    /\ \E u \in GArgs(gg.V), v \in GArgs(gg.V), w \in GWeights :
         gg' = add_edge_local(gg, u, v, w)
    /\ gcalls' = gcalls + 1
    /\ UNCHANGED <<nonGraphVars, gret>>

GraphNext ==
    \/ CallAddEdgeW
    \/ CallAddEdgeLocal

(* ------------------------------ euler_circuit ------------------------ *)

\* the graph with V vertices whose edges are the pairs of S, each <<u, v>>
\* with u < v, all of weight 1: what create_graph and add_edge_w build from
\* them
RECURSIVE GraphOf(_, _)
GraphOf(V, S) ==
    IF S = {} THEN create_graph(V)
    ELSE LET p == CHOOSE q \in S : TRUE
         IN  add_edge_w(GraphOf(V, S \ {p}), p[1], p[2], 1).g

PairsOf(V) == {p \in (0..(V - 1)) \X (0..(V - 1)) : p[1] < p[2]}

\* a variant of dfs that marks u and does not descend into its neighbours
dfs_no_descent(g, u, visited) == [visited EXCEPT ![u] = 1]

\* dfs: visited after the call; dfs_for is its loop from v on
RECURSIVE dfs(_, _, _), dfs_for(_, _, _, _)
dfs(g, u, visited) == dfs_for(g, u, 0, [visited EXCEPT ![u] = 1])
dfs_for(g, u, v, visited) ==
    IF v >= g.V THEN visited
    ELSE dfs_for(g, u, v + 1,
                 IF g.adj[u][v] # 0 /\ visited[v] = 0 THEN dfs(g, v, visited)
                                                      ELSE visited)

\* the first vertex from i on that has an edge, or dflt when there is none
RECURSIVE first_with_degree(_, _, _)
first_with_degree(g, i, dflt) ==
    IF i >= g.V THEN dflt
    ELSE IF degree(g, i) > 0 THEN i ELSE first_with_degree(g, i + 1, dflt)

\* a variant of connected_among_non_isolated that refuses a graph without
\* edges
connected_needs_an_edge(g) ==
    LET start == first_with_degree(g, 0, -1) IN
    IF start = -1 THEN 0
    ELSE LET visited == dfs(g, start, [i \in 0..(g.V - 1) |-> 0])
         IN  IF \E i \in 0..(g.V - 1) : degree(g, i) > 0 /\ visited[i] = 0
               THEN 0 ELSE 1

connected_among_non_isolated(g) ==
    LET start == first_with_degree(g, 0, -1) IN
    IF start = -1 THEN 1
    ELSE LET visited == dfs(g, start, [i \in 0..(g.V - 1) |-> 0])
         IN  IF \E i \in 0..(g.V - 1) : degree(g, i) > 0 /\ visited[i] = 0
               THEN 0 ELSE 1

all_even_degrees(g) ==
    IF \E i \in 0..(g.V - 1) : degree(g, i) % 2 # 0 THEN 0 ELSE 1

\* euler_circuit, lines 839-842: the lowest neighbour left of u, or -1
RECURSIVE euler_scan(_, _, _, _)
euler_scan(adj, u, w, V) ==
    IF w >= V THEN -1
    ELSE IF adj[u][w] # 0 THEN w ELSE euler_scan(adj, u, w + 1, V)
euler_pick(adj, deg, u, V) == IF deg[u] > 0 THEN euler_scan(adj, u, 0, V) ELSE -1

\* a variant of lines 829 and 833 that allocates E entries
euler_cap_tight(E) == E

\* euler_circuit, lines 829 and 833: stackCap = g->E + 2, outCap = g->E + 2
euler_cap(E) == E + 2

\* a variant of the edge removal that clears one direction only
euler_take_one_way(adj, u, v) == [adj EXCEPT ![u] = [@ EXCEPT ![v] = @ - 1]]

\* euler_circuit, line 844: adj[u][v]--; adj[v][u]--
euler_take(adj, u, v) ==
    [i \in DOMAIN adj |-> [j \in DOMAIN adj[i] |->
        IF (i = u /\ j = v) \/ (i = v /\ j = u) THEN adj[i][j] - 1 ELSE adj[i][j]]]

EulerInit ==
    /\ \E V \in 1..EMaxV : \E S \in SUBSET PairsOf(V) : e_g = GraphOf(V, S)
    /\ e_pc = "entry"
    /\ e_adj = <<>>
    /\ e_deg = <<>>
    /\ e_stack = <<>>
    /\ e_stackCap = 0
    /\ e_out = <<>>
    /\ e_outCap = 0
    /\ e_ret = -1
    /\ e_walk = <<>>

EulerIdle ==
    /\ e_g = create_graph(1)
    /\ e_pc = "entry"
    /\ e_adj = <<>>
    /\ e_deg = <<>>
    /\ e_stack = <<>>
    /\ e_stackCap = 0
    /\ e_out = <<>>
    /\ e_outCap = 0
    /\ e_ret = -1
    /\ e_walk = <<>>

\* a variant of line 854 that puts the popped vertex in front of the output
euler_emit_in_front(out, u) == <<u>> \o out

\* euler_circuit, line 854: out[outLen++] = u
euler_emit(out, u) == Append(out, u)

\* euler_circuit, lines 812-813: one of the two tests fails, return 0
EulerRefuse ==
    /\ e_pc = "entry"
    /\ (connected_among_non_isolated(e_g) = 0 \/ all_even_degrees(e_g) = 0)
    /\ e_ret' = 0
    /\ e_pc' = "done"
    /\ UNCHANGED <<nonEulerVars, e_g, e_adj, e_deg, e_stack, e_stackCap, e_out, e_outCap,
                   e_walk>>

\* euler_circuit, lines 812-837: both tests pass; copy adj, fill deg, pick
\* the start vertex, push it
EulerEnter ==
    /\ e_pc = "entry"
    /\ connected_among_non_isolated(e_g) # 0
    /\ all_even_degrees(e_g) # 0
    /\ e_adj' = e_g.adj
    /\ e_deg' = [i \in 0..(e_g.V - 1) |-> degree(e_g, i)]
    /\ e_stackCap' = euler_cap(e_g.E)
    /\ e_outCap' = euler_cap(e_g.E)
    /\ e_stack' = <<first_with_degree(e_g, 0, 0)>>
    /\ e_walk' = <<first_with_degree(e_g, 0, 0)>>
    /\ e_out' = <<>>
    /\ e_pc' = "loop"
    /\ UNCHANGED <<nonEulerVars, e_g, e_ret>>

\* a variant of lines 815-821 that takes the rows of g->adj for the rows of
\* adj (adj[i] = g->adj[i]) in place of copying them
euler_rows_shared(gadj, adj) == adj

\* euler_circuit, lines 815-821: every row of adj is a fresh allocation filled
\* by memcpy from g->adj[i], so g->adj holds what it held whatever is written
\* to adj afterwards
euler_rows(gadj, adj) == gadj

\* one turn of the while loop with an edge left at the top vertex: take the
\* edge to its lowest neighbour and push that neighbour
EulerPush ==
    /\ e_pc = "loop"
    /\ Len(e_stack) > 0
    /\ LET u == e_stack[Len(e_stack)]
           v == euler_pick(e_adj, e_deg, u, e_g.V)
       IN  /\ v # -1
           /\ e_adj' = euler_take(e_adj, u, v)
           /\ e_deg' = [i \in DOMAIN e_deg |->
                          e_deg[i] - (IF i = u THEN 1 ELSE 0) - (IF i = v THEN 1 ELSE 0)]
           /\ e_stackCap' = IF Len(e_stack) >= e_stackCap THEN e_stackCap * 2
                                                          ELSE e_stackCap
           /\ e_stack' = Append(e_stack, v)
           /\ e_walk' = Append(e_walk, v)
           /\ e_g' = [e_g EXCEPT !.adj = euler_rows(@, euler_take(e_adj, u, v))]
    /\ UNCHANGED <<nonEulerVars, e_pc, e_out, e_outCap, e_ret>>

\* one turn of the while loop with no edge left at the top vertex: append it
\* to out and pop it
EulerPop ==
    /\ e_pc = "loop"
    /\ Len(e_stack) > 0
    /\ LET u == e_stack[Len(e_stack)]
           v == euler_pick(e_adj, e_deg, u, e_g.V)
       IN  /\ v = -1
           /\ e_outCap' = IF Len(e_out) >= e_outCap THEN e_outCap * 2 ELSE e_outCap
           /\ e_out' = euler_emit(e_out, u)
           /\ e_stack' = SubSeq(e_stack, 1, Len(e_stack) - 1)
    /\ UNCHANGED <<nonEulerVars, e_g, e_pc, e_adj, e_deg, e_stackCap, e_ret, e_walk>>

\* the loop ends with the stack empty: *path_out = out, return 1
EulerReturn ==
    /\ e_pc = "loop"
    /\ Len(e_stack) = 0
    /\ e_ret' = 1
    /\ e_pc' = "done"
    /\ UNCHANGED <<nonEulerVars, e_g, e_adj, e_deg, e_stack, e_stackCap, e_out, e_outCap,
                   e_walk>>

(* handle_euler (server.c:218-245) *)

\* line 228: the for loop counting the vertices of odd degree from i on
RECURSIVE handle_euler_odd(_, _)
handle_euler_odd(g, i) ==
    IF i >= g.V THEN 0
    ELSE (IF degree(g, i) % 2 # 0 THEN 1 ELSE 0) + handle_euler_odd(g, i + 1)

EulerDisconnected == <<"No Euler circuit: graph is disconnected among non-isolated vertices.">>
EulerOdd(odd)     == <<"No Euler circuit: %d vertices have odd degree.", odd>>
EulerUnexpected   == <<"No Euler circuit (unexpected after checks).">>
EulerExists       == <<"Euler circuit exists. Sequence of vertices:">>

\* a variant of handle_euler that counts the odd degrees before it tests
\* the connectivity
handle_euler_parity_first(g, ret, path) ==
    IF handle_euler_odd(g, 0) # 0 THEN <<EulerOdd(handle_euler_odd(g, 0))>>
    ELSE IF connected_among_non_isolated(g) = 0 THEN <<EulerDisconnected>>
    ELSE IF ret = 0 THEN <<EulerUnexpected>>
    ELSE <<EulerExists, path>>

\* handle_euler: the body, line by line, given what euler_circuit returns
\* for the graph (ret and the path; they are used on the last branch only);
\* the last line is path[0] -> path[1] -> ...
handle_euler_body(g, ret, path) ==
    IF connected_among_non_isolated(g) = 0 THEN <<EulerDisconnected>>
    ELSE IF handle_euler_odd(g, 0) # 0 THEN <<EulerOdd(handle_euler_odd(g, 0))>>
    ELSE IF ret = 0 THEN <<EulerUnexpected>>
    ELSE <<EulerExists, path>>

EulerNext ==
    \/ EulerRefuse
    \/ EulerEnter
    \/ EulerPush
    \/ EulerPop
    \/ EulerReturn

(* --------------------------- the request parser ---------------------- *)

\* A token is what strtok returned: a non-empty sequence of characters other
\* than blank, tab, CR and LF.  A line is the sequence of its tokens.
T_EULER      == <<"E", "U", "L", "E", "R">>
T_MST        == <<"M", "S", "T">>
T_MAXCLIQUE  == <<"M", "A", "X", "C", "L", "I", "Q", "U", "E">>
T_COUNTCLQ3P == <<"C", "O", "U", "N", "T", "C", "L", "Q", "3", "P">>
T_HAMILTON   == <<"H", "A", "M", "I", "L", "T", "O", "N">>
T_GRAPH      == <<"G", "R", "A", "P", "H">>
T_p          == <<"-", "p">>

DigitChars == <<"0", "1", "2", "3", "4", "5", "6", "7", "8", "9">>
DigitVal(c) == IF \E d \in 1..10 : DigitChars[d] = c
                 THEN (CHOOSE d \in 1..10 : DigitChars[d] = c) - 1
                 ELSE -1

\* strtol/strtoul, base 10, on a token: an optional sign, then digits.  The
\* digits are accumulated as a negative number so that INT_MIN fits.
\* strto_scan gives <<index after the last digit, -(magnitude), overflow>>,
\* overflow meaning a magnitude above INT_MAX + 1.
RECURSIVE strto_scan(_, _, _, _)
strto_scan(s, i, nacc, over) ==
    IF i > Len(s) \/ DigitVal(s[i]) < 0 THEN <<i, nacc, over>>
    ELSE LET d   == DigitVal(s[i])
             lim == (INT_MAX - (IF d = 0 THEN 0 ELSE d - 1)) \div 10
         IN  IF over \/ nacc < -lim
               THEN strto_scan(s, i + 1, 0, TRUE)
               ELSE strto_scan(s, i + 1, nacc * 10 - d, FALSE)

\* conv: some digit was converted (e != s); rest: characters follow the
\* digits (*e != 0); neg: a minus sign; nmag and over as in strto_scan
strto(s) ==
    LET sgn == IF Len(s) > 0 /\ s[1] \in {"+", "-"} THEN 1 ELSE 0
        r   == strto_scan(s, sgn + 1, 0, FALSE)
    IN  [conv |-> r[1] > sgn + 1,
         rest |-> r[1] <= Len(s),
         neg  |-> sgn = 1 /\ s[1] = "-",
         nmag |-> r[2],
         over |-> r[3],
         digits |-> SubSeq(s, sgn + 1, r[1] - 1)]

\* parse_int: false unless the whole token converts to a long within
\* [INT_MIN, INT_MAX]
parse_int(s) ==
    LET r == strto(s) IN
    IF ~r.conv \/ r.rest THEN [ok |-> FALSE, val |-> 0]
    ELSE IF r.over THEN [ok |-> FALSE, val |-> 0]
    ELSE IF r.neg THEN [ok |-> TRUE, val |-> r.nmag]
    ELSE IF r.nmag < -INT_MAX THEN [ok |-> FALSE, val |-> 0]
    ELSE [ok |-> TRUE, val |-> -r.nmag]

\* digit strings compared as numbers: leading zeros dropped, then by length,
\* then digit by digit
RECURSIVE StripZeros(_)
StripZeros(d) == IF Len(d) > 1 /\ d[1] = "0" THEN StripZeros(Tail(d)) ELSE d
RECURSIVE DigitsLeq(_, _)
DigitsLeq(a, b) ==
    IF Len(a) # Len(b) THEN Len(a) < Len(b)
    ELSE IF a = <<>> THEN TRUE
    ELSE IF a[1] # b[1] THEN DigitVal(a[1]) < DigitVal(b[1])
    ELSE DigitsLeq(Tail(a), Tail(b))
DecLeq(a, b) == DigitsLeq(StripZeros(a), StripZeros(b))

\* 0xFFFFFFFF, and with a 64-bit unsigned long: ULONG_MAX and ULONG_MAX -
\* 0xFFFFFFFF + 1, the magnitudes whose negation fits 32 bits
D_UINT_MAX  == <<"4", "2", "9", "4", "9", "6", "7", "2", "9", "5">>
D_ULONG_MAX == <<"1", "8", "4", "4", "6", "7", "4", "4", "0", "7", "3", "7", "0", "9",
                 "5", "5", "1", "6", "1", "5">>
D_NEG_LOW   == <<"1", "8", "4", "4", "6", "7", "4", "4", "0", "6", "9", "4", "1", "4",
                 "5", "8", "4", "3", "2", "1">>

\* parse_uint: false unless the whole token converts to an unsigned long of
\* at most 0xFFFFFFFF; strtoul negates a token with a minus sign modulo
\* 2^64.  val is the seed where it is at most INT_MAX and -1 where the model
\* does not compute it (no graph is drawn from the value).
parse_uint(s) ==
    LET r == strto(s) IN
    IF ~r.conv \/ r.rest THEN [ok |-> FALSE, val |-> 0]
    ELSE IF ~r.neg
      THEN IF DecLeq(r.digits, D_UINT_MAX)
             THEN [ok |-> TRUE, val |-> IF r.over \/ r.nmag < -INT_MAX THEN -1 ELSE -r.nmag]
             ELSE [ok |-> FALSE, val |-> 0]
    ELSE IF ~r.over /\ r.nmag = 0 THEN [ok |-> TRUE, val |-> 0]
    ELSE IF DecLeq(D_NEG_LOW, r.digits) /\ DecLeq(r.digits, D_ULONG_MAX)
      THEN [ok |-> TRUE, val |-> -1]
    ELSE [ok |-> FALSE, val |-> 0]

\* the strcmp chain on tok[0]: the command, or "" for an unknown one
algo_of(t) ==
    CASE t = T_EULER      -> "EULER"
      [] t = T_MST        -> "MST"
      [] t = T_MAXCLIQUE  -> "MAXCLIQUE"
      [] t = T_COUNTCLQ3P -> "COUNTCLQ3P"
      [] t = T_HAMILTON   -> "HAMILTON"
      [] OTHER            -> ""

\* One line of response text: its first word (the characters before the
\* first blank), the rest of the line, and the numbers printed into it.
Line(first, text, args) == [first |-> first, text |-> text, args |-> args]

ErrUsage ==
    <<Line("ERR", "usage:", <<>>),
      Line("", "  <ALGO> <E> <V> <SEED> [-p]", <<>>),
      Line("", "  <ALGO> GRAPH <E> <V> [-p]  (then E lines: u v [w])", <<>>)>>
ErrUnknownAlgo ==
    <<Line("ERR", "unknown ALGO. Supported: EULER MST MAXCLIQUE COUNTCLQ3P HAMILTON", <<>>)>>
ErrUsageGraph  == <<Line("ERR", "usage: <ALGO> GRAPH <E> <V> [-p]", <<>>)>>
ErrUsageRandom == <<Line("ERR", "usage: <ALGO> <E> <V> <SEED> [-p]", <<>>)>>
ErrBadEV       == <<Line("ERR", "bad <E> or <V>", <<>>)>>
ErrBadParams   == <<Line("ERR", "bad params.", <<>>)>>
ErrBadFlag     == <<Line("ERR", "bad flag. Use -p or omit.", <<>>)>>
ErrInvalidVE   == <<Line("ERR", "invalid: V >= 1, E >= 0", <<>>)>>
ErrTooManyE(maxE)   == <<Line("ERR", "invalid: E <= V*(V-1)/2 (max=%lld)", <<maxE>>)>>
ErrExpected(E, i)   == <<Line("ERR", "expected %d edge lines; got %d", <<E, i>>)>>
ErrEdgeFormat       == <<Line("ERR", "edge line format: u v [w]", <<>>)>>
ErrEdgeEndpoints    == <<Line("ERR", "edge endpoints", <<>>)>>
ErrWeight           == <<Line("ERR", "weight must be positive", <<>>)>>
ErrInvalidEdge(i, u, v) == <<Line("ERR", "invalid edge %d: (%d,%d)", <<i, u, v>>)>>

\* what the header checks of one mode decide, from E, V and the flag
HdrOk(mode, cmd, E, V, seed, want_print) ==
    [err |-> <<>>, mode |-> mode, cmd |-> cmd, E |-> E, V |-> V, seed |-> seed,
     want_print |-> want_print]
HdrErr(text) ==
    [err |-> text, mode |-> "", cmd |-> "", E |-> -1, V |-> -1, seed |-> 0,
     want_print |-> FALSE]

\* lines 369-371 and 397-399: V, E and maxE
check_VE(mode, cmd, E, V, seed, want_print) ==
    IF V < 1 \/ E < 0 THEN HdrErr(ErrInvalidVE)
    ELSE LET maxE == (V * (V - 1)) \div 2 IN
         IF E > maxE THEN HdrErr(ErrTooManyE(maxE))
         ELSE HdrOk(mode, cmd, E, V, seed, want_print)

\* handle_client_header_and_dispatch, lines 338-399: the header checks, on
\* the tokens of the header line (at most HDR_TOK_CAP of them are kept)
header_check(line) ==
    LET ntok == IF Len(line) < HDR_TOK_CAP THEN Len(line) ELSE HDR_TOK_CAP
        tok  == SubSeq(line, 1, ntok)
    IN
    IF ntok < 4 THEN HdrErr(ErrUsage)
    ELSE IF algo_of(tok[1]) = "" THEN HdrErr(ErrUnknownAlgo)
    ELSE IF tok[2] = T_GRAPH
      THEN IF ntok < 4 \/ ntok > 5 THEN HdrErr(ErrUsageGraph)
           ELSE IF ~parse_int(tok[3]).ok \/ ~parse_int(tok[4]).ok THEN HdrErr(ErrBadEV)
           ELSE IF ntok = 5 /\ tok[5] # T_p THEN HdrErr(ErrBadFlag)
           ELSE check_VE("GRAPH", algo_of(tok[1]), parse_int(tok[3]).val,
                         parse_int(tok[4]).val, 0, ntok = 5)
      ELSE IF ntok < 4 \/ ntok > 5 THEN HdrErr(ErrUsageRandom)
           ELSE IF ~parse_int(tok[2]).ok \/ ~parse_int(tok[3]).ok
                     \/ ~parse_uint(tok[4]).ok THEN HdrErr(ErrBadParams)
           ELSE IF ntok = 5 /\ tok[5] # T_p THEN HdrErr(ErrBadFlag)
           ELSE check_VE("RANDOM", algo_of(tok[1]), parse_int(tok[2]).val,
                         parse_int(tok[3]).val, parse_uint(tok[4]).val, ntok = 5)

\* a variant of the endpoint test that lets u = v through
edge_endpoints_invalid_no_loop_test(u, v, V) == u < 0 \/ u >= V \/ v < 0 \/ v >= V

\* line 386: u<0||u>=V||v<0||v>=V||u==v
edge_endpoints_invalid(u, v, V) == u < 0 \/ u >= V \/ v < 0 \/ v >= V \/ u = v

\* lines 381-386: the checks on one edge line, a, b, c being its first three
\* tokens: the error text, or <<>> and the edge to add (w = 1 without c)
edge_check(line, i, V) ==
    IF Len(line) < 2 THEN [err |-> ErrEdgeFormat, u |-> 0, v |-> 0, w |-> 0]
    ELSE LET a == parse_int(line[1])
             b == parse_int(line[2])
         IN
         IF ~a.ok \/ ~b.ok THEN [err |-> ErrEdgeEndpoints, u |-> 0, v |-> 0, w |-> 0]
         ELSE IF Len(line) >= 3 /\ (~parse_int(line[3]).ok \/ parse_int(line[3]).val <= 0)
           THEN [err |-> ErrWeight, u |-> 0, v |-> 0, w |-> 0]
         ELSE IF edge_endpoints_invalid(a.val, b.val, V)
           THEN [err |-> ErrInvalidEdge(i, a.val, b.val), u |-> 0, v |-> 0, w |-> 0]
         ELSE [err |-> <<>>, u |-> a.val, v |-> b.val,
               w |-> IF Len(line) >= 3 THEN parse_int(line[3]).val ELSE 1]

\* graph_add_edge, the public form of add_edge: refuses endpoints out of
\* range, self-loops, non-positive weights and edges already present;
\* otherwise records the edge with its weight and increments E
graph_add_edge(g, u, v, w) ==
    IF u \notin 0..(g.V - 1) \/ v \notin 0..(g.V - 1) \/ u = v \/ w <= 0
         \/ g.adj[u][v] = 1
      THEN [g |-> g, ret |-> 0]
      ELSE [g |-> [g EXCEPT !.adj = [@ EXCEPT ![u] = [@ EXCEPT ![v] = 1],
                                              ![v] = [@ EXCEPT ![u] = 1]],
                            !.w   = [@ EXCEPT ![u] = [@ EXCEPT ![v] = w],
                                              ![v] = [@ EXCEPT ![u] = w]],
                            !.E   = @ + 1],
            ret |-> 1]

\* a variant of the loop step that does not count a refused edge
edge_loop_next_if_added(i, ret) == IF ret = 0 THEN i ELSE i + 1

\* line 375: ++i, whatever graph_add_edge returned
edge_loop_next(i, ret) == i + 1

\* a variant that takes a refused edge for an error
add_result_is_error_when_refused(ret) == ret = 0

\* line 387: (void)graph_add_edge(...): the result is dropped
add_result_is_error(ret) == FALSE

\* what a client writes for the number n, in decimal
RECURSIVE DecDigits(_)
DecDigits(n) == IF n < 10 THEN <<DigitChars[n + 1]>>
                ELSE Append(DecDigits(n \div 10), DigitChars[(n % 10) + 1])
Num(n) == IF n < 0 THEN <<"-">> \o DecDigits(-n) ELSE DecDigits(n)

\* tokens that are no command, no number, no flag
T_euler == <<"e", "u", "l", "e", "r">>
T_x     == <<"x">>
T_1x    == <<"1", "x">>
T_big   == <<"2", "1", "4", "7", "4", "8", "3", "6", "4", "8">>
T_q     == <<"-", "q">>

\* the tokens the modelled clients put at each place of a header line, and
\* the header lines they send
NumToks == {Num(n) : n \in (-1)..PMaxV} \cup {T_x, T_1x, T_big}
HdrTokAt(k) ==
    CASE k = 1         -> {T_EULER, T_MST, T_euler}
      [] k = 2         -> {T_GRAPH} \cup NumToks
      [] k \in {3, 4} -> NumToks
      [] k = 5         -> {T_p, T_q}
      [] OTHER         -> {T_p}
RECURSIVE HeaderLinesOfLen(_)
HeaderLinesOfLen(n) ==
    IF n = 0 THEN {<<>>}
    ELSE {Append(h, t) : h \in HeaderLinesOfLen(n - 1), t \in HdrTokAt(n)}
HeaderLines == UNION {HeaderLinesOfLen(n) : n \in 0..MaxHdrTok}

\* the edge lines they send: none, one, two, three or four tokens
EndpointToks == {Num(n) : n \in (-1)..PMaxV} \cup {T_x}
WeightToks   == {Num(-1), Num(0), Num(1), Num(2), T_x}
EdgeLines ==
    {<<>>} \cup {<<a>> : a \in EndpointToks}
           \cup {<<a, b>> : a \in EndpointToks, b \in EndpointToks}
           \cup {<<a, b, c>> : a \in EndpointToks, b \in EndpointToks, c \in WeightToks}
           \cup {<<Num(0), Num(1), Num(1), T_x>>}

\* the graph with V vertices, edges S and the weights wt
RECURSIVE GraphOfW(_, _, _)
GraphOfW(V, S, wt) ==
    IF S = {} THEN create_graph(V)
    ELSE LET p == CHOOSE q \in S : TRUE
         IN  add_edge_w(GraphOfW(V, S \ {p}, wt), p[1], p[2], wt[p]).g

\* generate_random_graph: add_edge_w with endpoints rand() % V and weights
\* rand() % GRAPH_RAND_WMAX + 1 until the graph has targetE edges.  The
\* graphs the loop can end with: targetE edges, each of a weight in
\* 1..GRAPH_RAND_WMAX (the least and the greatest weight are drawn here).
generate_random_graph(V, targetE) ==
    {GraphOfW(V, S, wt) :
        S \in {T \in SUBSET PairsOf(V) : Cardinality(T) = targetE},
        wt \in [PairsOf(V) -> {1, GRAPH_RAND_WMAX}]}

\* what a read delivers: nothing yet, end of input (or an error), or a line
\* with its tokens; dup marks an edge line that names, with a valid weight
\* or none, a pair the graph already has
NoLine      == [kind |-> "none", tok |-> <<>>, dup |-> FALSE]
EndOfInput  == [kind |-> "eof", tok |-> <<>>, dup |-> FALSE]
LineRead(l) == [kind |-> "line", tok |-> l, dup |-> FALSE]

\* the integers the modelled clients write, and the integer a token stands
\* for, read back from the way numbers are written
WrittenInts == (-1)..PMaxV
IsIntTok(t) == \E n \in WrittenInts : Num(n) = t
IntOfTok(t) == CHOOSE n \in WrittenInts : Num(n) = t

\* an edge line as the client means it: two endpoints and a weight, absent
\* or positive
WellFormedEdge(l) ==
    /\ Len(l) >= 2
    /\ IsIntTok(l[1]) /\ IsIntTok(l[2])
    /\ Len(l) >= 3 => (IsIntTok(l[3]) /\ IntOfTok(l[3]) > 0)
\* such a line repeats a pair of g, in either order
IsDuplicateLine(l, g) ==
    /\ WellFormedEdge(l)
    /\ LET u == IntOfTok(l[1])
           v == IntOfTok(l[2])
       IN  /\ u \in 0..(g.V - 1) /\ v \in 0..(g.V - 1) /\ u # v
           /\ g.adj[u][v] = 1
\* such a line joins a vertex of 0..V-1 to itself
IsSelfLoopLine(l, V) ==
    /\ WellFormedEdge(l)
    /\ IntOfTok(l[1]) = IntOfTok(l[2])
    /\ IntOfTok(l[1]) \in 0..(V - 1)

ParseIdle ==
    /\ p_hdr = EndOfInput
    /\ p_pc = "header"
    /\ p_loc = HdrErr(<<>>)
    /\ p_i = 0
    /\ p_g = <<>>
    /\ p_last = NoLine
    /\ p_nread = 0
    /\ p_ndup = 0
    /\ p_sent = <<>>
    /\ p_wire = <<>>
    /\ p_closed = 0
    /\ p_freed = 0
    /\ p_enq = <<>>

ParseInit ==
    /\ p_hdr \in {LineRead(h) : h \in HeaderLines} \cup {EndOfInput}
    /\ p_pc = "header"
    /\ p_loc = HdrErr(<<>>)
    /\ p_i = 0
    /\ p_g = <<>>
    /\ p_last = NoLine
    /\ p_nread = 0
    /\ p_ndup = 0
    /\ p_sent = <<>>
    /\ p_wire = <<>>
    /\ p_closed = 0
    /\ p_freed = 0
    /\ p_enq = <<>>

\* an error path: sendf_fd(cfd, text), whose write may stop short;
\* free_graph(g) where a graph exists; close(cfd); return
Reject(text) ==
    /\ p_sent' = p_sent \o text
    /\ \E k \in 0..Len(text) : p_wire' = p_wire \o SubSeq(text, 1, k)
    /\ p_freed' = p_freed + Len(p_g)
    /\ p_g' = <<>>
    /\ p_closed' = p_closed + 1
    /\ p_pc' = "done"

\* line 336: read_line_req(...) <= 0 on the header: close and return
ParseReadFail ==
    /\ p_pc = "header"
    /\ p_hdr.kind = "eof"
    /\ p_closed' = p_closed + 1
    /\ p_pc' = "done"
    /\ UNCHANGED <<nonParseVars, p_hdr, p_loc, p_i, p_g, p_last, p_nread, p_ndup,
                   p_sent, p_wire, p_freed, p_enq>>

\* lines 338-371 and 390-399: a header check fails
ParseHeaderReject ==
    /\ p_pc = "header"
    /\ p_hdr.kind = "line"
    /\ \E h \in {header_check(p_hdr.tok)} :
         /\ h.err # <<>>
         /\ Reject(h.err)
    /\ UNCHANGED <<nonParseVars, p_hdr, p_loc, p_i, p_last, p_nread, p_ndup, p_enq>>

\* lines 363-374: a GRAPH header passes; g = create_graph(V); i = 0
ParseHeaderExplicit ==
    /\ p_pc = "header"
    /\ p_hdr.kind = "line"
    /\ \E h \in {header_check(p_hdr.tok)} :
       /\ h.err = <<>>
       /\ h.mode = "GRAPH"
       /\ p_loc' = h
       /\ p_g' = <<create_graph(h.V)>>
    /\ p_i' = 0
    /\ p_pc' = "edges"
    /\ UNCHANGED <<nonParseVars, p_hdr, p_last, p_nread, p_ndup, p_sent, p_wire,
                   p_closed, p_freed, p_enq>>

\* lines 389-405: a random-mode header passes; g = create_graph(V), filled
\* by generate_random_graph under rng_mtx
ParseHeaderRandom ==
    /\ p_pc = "header"
    /\ p_hdr.kind = "line"
    /\ \E h \in {header_check(p_hdr.tok)} :
       /\ h.err = <<>>
       /\ h.mode = "RANDOM"
       /\ p_loc' = h
       /\ \E g \in generate_random_graph(h.V, h.E) : p_g' = <<g>>
    /\ p_pc' = "dispatch"
    /\ UNCHANGED <<nonParseVars, p_hdr, p_i, p_last, p_nread, p_ndup, p_sent, p_wire,
                   p_closed, p_freed, p_enq>>

\* lines 375-380: i < E and read_line_req(...) <= 0
EdgeReadFail ==
    /\ p_pc = "edges"
    /\ p_i < p_loc.E
    /\ Reject(ErrExpected(p_loc.E, p_i))
    /\ p_last' = EndOfInput
    /\ UNCHANGED <<nonParseVars, p_hdr, p_loc, p_i, p_nread, p_ndup, p_enq>>

\* lines 375-387: i < E, a line is read; a check fails, or the edge goes to
\* graph_add_edge and the loop goes on
EdgeLine ==
    /\ p_pc = "edges"
    /\ p_i < p_loc.E
    /\ \E line \in EdgeLines :
         \E c \in {edge_check(line, p_i, p_loc.V)} :
         \E r \in {graph_add_edge(p_g[1], c.u, c.v, c.w)} :
             /\ p_last' = [LineRead(line) EXCEPT !.dup = IsDuplicateLine(line, p_g[1])]
             /\ p_nread' = p_nread + 1
             /\ p_ndup' = p_ndup + (IF IsDuplicateLine(line, p_g[1]) THEN 1 ELSE 0)
             /\ IF c.err # <<>>
                  THEN /\ Reject(c.err)
                       /\ UNCHANGED p_i
                  ELSE IF add_result_is_error(r.ret)
                  THEN /\ Reject(ErrInvalidEdge(p_i, c.u, c.v))
                       /\ UNCHANGED p_i
                  ELSE /\ p_g' = <<r.g>>
                       /\ p_i' = edge_loop_next(p_i, r.ret)
                       /\ UNCHANGED <<p_sent, p_wire, p_closed, p_freed, p_pc>>
    /\ UNCHANGED <<nonParseVars, p_hdr, p_loc, p_enq>>

\* the edge loop ends with i = E
EdgeLoopEnd ==
    /\ p_pc = "edges"
    /\ ~(p_i < p_loc.E)
    /\ p_pc' = "dispatch"
    /\ UNCHANGED <<nonParseVars, p_hdr, p_loc, p_i, p_g, p_last, p_nread, p_ndup,
                   p_sent, p_wire, p_closed, p_freed, p_enq>>

\* lines 410-411: malloc(sizeof(Request)) fails: free the graph and the
\* prefix, close, return
ParseAllocFail ==
    /\ p_pc = "dispatch"
    /\ p_freed' = p_freed + 1
    /\ p_g' = <<>>
    /\ p_closed' = p_closed + 1
    /\ p_pc' = "done"
    /\ UNCHANGED <<nonParseVars, p_hdr, p_loc, p_i, p_last, p_nread, p_ndup, p_sent,
                   p_wire, p_enq>>

\* lines 408-414: the prefix, the Request (cfd 1 here), route_to_ao
ParseDispatch ==
    /\ p_pc = "dispatch"
    /\ LET R  == Request(1, p_loc.cmd, p_g[1],
                         make_prefix_if_p(p_g[1], p_loc.want_print))
           ao == route_to_ao(R.cmd)
       IN  IF ao = "none"
             THEN /\ p_closed' = p_closed + Len(route_to_ao_close(ao))
                  /\ p_freed' = p_freed + 1
                  /\ p_g' = <<>>
                  /\ UNCHANGED p_enq
             ELSE /\ p_enq' = Append(p_enq, [ao |-> ao, R |-> R])
                  /\ p_closed' = p_closed + Len(route_to_ao_close(ao))
                  /\ UNCHANGED <<p_freed, p_g>>
    /\ p_pc' = "done"
    /\ UNCHANGED <<nonParseVars, p_hdr, p_loc, p_i, p_last, p_nread, p_ndup, p_sent,
                   p_wire>>

ParseNext ==
    \/ ParseReadFail
    \/ ParseHeaderReject
    \/ ParseHeaderExplicit
    \/ ParseHeaderRandom
    \/ EdgeReadFail
    \/ EdgeLine
    \/ EdgeLoopEnd
    \/ ParseAllocFail
    \/ ParseDispatch

\* the text make_prefix_if_p builds for a graph, line by line: each line is
\* the format sb_printf was given with the values printed
PrefixLine(fmt, args) == [fmt |-> fmt, args |-> args]

\* the inner for loop: "%d " for adj[i][j], j from 0 up
prefix_row(g, i) == [j \in 1..g.V |-> g.adj[i][j - 1]]

RECURSIVE prefix_rows(_, _)
prefix_rows(g, i) ==
    IF i >= g.V THEN <<>>
    ELSE <<PrefixLine("%d ...", prefix_row(g, i))>> \o prefix_rows(g, i + 1)

prefix_text(g) ==
    <<PrefixLine("Graph: V=%d, E=%d", <<g.V, g.E>>), PrefixLine("Adjacency matrix:", <<>>)>>
        \o prefix_rows(g, 0)

(* --------------------------- the algorithms -------------------------- *)

AlgoIdle ==
    /\ a_g = create_graph(1)
    /\ a_fn = "none"
    /\ a_ret = <<>>

(* mst_weight_prim (server.c:875-951) *)

\* const int INF = INT_MAX / 4
INF == INT_MAX \div 4

\* lines 896-906: the for loop over v of the connectivity check, for the
\* vertex u popped; stack holds stack[0..top-1], bottom first
RECURSIVE mst_dfs_for(_, _, _, _, _)
mst_dfs_for(g, u, v, stack, vis) ==
    IF v >= g.V THEN [stack |-> stack, vis |-> vis]
    ELSE IF g.adj[u][v] # 0 /\ vis[v] = 0
      THEN mst_dfs_for(g, u, v + 1, Append(stack, v), [vis EXCEPT ![v] = 1])
      ELSE mst_dfs_for(g, u, v + 1, stack, vis)

\* lines 894-907: while (top) { u = stack[--top]; ... }, the value is vis
RECURSIVE mst_dfs_while(_, _, _)
mst_dfs_while(g, stack, vis) ==
    IF stack = <<>> THEN vis
    ELSE LET r == mst_dfs_for(g, stack[Len(stack)], 0,
                              SubSeq(stack, 1, Len(stack) - 1), vis)
         IN  mst_dfs_while(g, r.stack, r.vis)

\* lines 925-929: the vertex of least key outside the tree, scanning i
\* upwards; the value is the pair u, best
RECURSIVE prim_pick(_, _, _, _, _, _)
prim_pick(key, inMST, i, V, u, best) ==
    IF i >= V THEN [u |-> u, best |-> best]
    ELSE IF inMST[i] = 0 /\ key[i] < best
      THEN prim_pick(key, inMST, i + 1, V, i, key[i])
      ELSE prim_pick(key, inMST, i + 1, V, u, best)

\* lines 938-943: relax the neighbours of u
prim_relax(g, u, key, inMST) ==
    [v \in 0..(g.V - 1) |->
        IF inMST[v] = 0 /\ g.adj[u][v] # 0 /\ g.w[u][v] < key[v]
          THEN g.w[u][v] ELSE key[v]]

\* lines 923-944: the loop over it
RECURSIVE prim_loop(_, _, _, _, _)
prim_loop(g, it, key, inMST, total) ==
    IF it >= g.V THEN total
    ELSE LET p == prim_pick(key, inMST, 0, g.V, -1, INF) IN
         IF p.u = -1 \/ p.best = INF THEN -1
         ELSE LET in2 == [inMST EXCEPT ![p.u] = 1]
              IN  prim_loop(g, it + 1, prim_relax(g, p.u, key, in2), in2,
                            total + (IF it = 0 THEN 0 ELSE p.best))

mst_weight_prim(g) ==
    IF g.V = 0 \/ g.V = 1 THEN 0
    ELSE IF \E i \in 0..(g.V - 1) : degree(g, i) = 0 THEN -1
    ELSE LET zero == [i \in 0..(g.V - 1) |-> 0]
             vis  == mst_dfs_while(g, <<0>>, [zero EXCEPT ![0] = 1])
         IN  IF \E i \in 0..(g.V - 1) : vis[i] = 0 THEN -1
             ELSE prim_loop(g, 0, [i \in 0..(g.V - 1) |-> IF i = 0 THEN 0 ELSE INF],
                            zero, 0)

\* handle_mst (server.c:247-256): the body built from the value returned
MstNotConnected == <<"MST: graph is not connected (no spanning tree)">>
handle_mst_body(w) == IF w < 0 THEN MstNotConnected ELSE <<"MST total weight: ", w>>

\* the weights of the graphs mst_weight_prim is called with: the parser
\* accepts 1..INT_MAX (server.c:385); small ones, the ones next to INF, the
\* largest
MstWeights == {1, 2, INF - 1, INF, INT_MAX}

MstInit ==
    /\ \E V \in 1..MMaxV : \E S \in SUBSET PairsOf(V) : \E wt \in [S -> MstWeights] :
           a_g = GraphOfW(V, S, wt)
    /\ a_fn = "none"
    /\ a_ret = <<>>

\* handle_mst calls mst_weight_prim(R->g) and formats the answer
CallMst ==
    /\ a_fn = "none"
    /\ \E w \in {mst_weight_prim(a_g)} :
          a_ret' = [val |-> w, body |-> handle_mst_body(w)]
    /\ a_fn' = "mst_weight_prim"
    /\ UNCHANGED a_g
    /\ UNCHANGED nonAlgoVars

MstNext == CallMst

(* the bitsets of the clique code (server.c:956-1021), as sets of vertices *)

\* __builtin_ctzll on a non-zero word: the lowest member
bs_lowest(B) == CHOOSE x \in B : \A y \in B : x <= y

\* the members of a bitset in the order the word loops visit them
RECURSIVE bs_ascending(_)
bs_ascending(B) ==
    IF B = {} THEN <<>> ELSE <<bs_lowest(B)>> \o bs_ascending(B \ {bs_lowest(B)})

\* nb_build: N[v], the neighbours of v
nb_build(g) == [v \in 0..(g.V - 1) |-> {u \in 0..(g.V - 1) : g.adj[v][u] # 0}]

(* max_clique (server.c:1022-1141) *)

\* choose_pivot: the first u of P \cup X, in ascending order, with the most
\* neighbours in P; -1 when P \cup X is empty
RECURSIVE choose_pivot_scan(_, _, _, _, _)
choose_pivot_scan(U, P, nb, best_u, best_deg) ==
    IF U = {} THEN best_u
    ELSE LET u   == bs_lowest(U)
             deg == Cardinality(P \cap nb[u])
         IN  IF deg > best_deg
               THEN choose_pivot_scan(U \ {u}, P, nb, u, deg)
               ELSE choose_pivot_scan(U \ {u}, P, nb, best_u, best_deg)
choose_pivot(P, X, nb) == choose_pivot_scan(P \cup X, P, nb, -1, -1)

\* a variant of the restriction to the neighbours of v that only drops v
bk_restrict_drop_only(B, nb, v) == B \ {v}

\* lines 1082-1083: P' = P \cap N(v), X' = X \cap N(v)
bk_restrict(B, nb, v) == B \cap nb[v]

\* a variant of the test on a reported clique that passes over single vertices
bk_improves_from_pairs(sz, best) == sz > best /\ sz > 1

\* a variant of line 1061 that also takes a clique of the size already held
bk_improves_or_equal(sz, best) == sz >= best

\* BK_recurse, lines 1060-1061: if (sz > S->best_size)
bk_improves(sz, best) == sz > best

\* BK_recurse: S is the BKState (best_size, best_R); BK_loop is its loop
\* over the snapshot W of P \ N(u), which changes P and X as it goes
RECURSIVE BK_recurse(_, _, _, _, _), BK_loop(_, _, _, _, _, _)
BK_recurse(R, P, X, S, nb) ==
    IF P = {} /\ X = {}
      THEN IF bk_improves(Cardinality(R), S.best_size)
             THEN [best_size |-> Cardinality(R), best_R |-> R]
             ELSE S
      ELSE LET u == choose_pivot(P, X, nb)
           IN  BK_loop(IF u >= 0 THEN P \ nb[u] ELSE P, R, P, X, S, nb)
BK_loop(W, R, P, X, S, nb) ==
    IF W = {} THEN S
    ELSE LET v == bs_lowest(W)
         IN  BK_loop(W \ {v}, R, P \ {v}, X \cup {v},
                     BK_recurse(R \cup {v}, bk_restrict(P, nb, v),
                                bk_restrict(X, nb, v), S, nb),
                     nb)

\* BK_recurse with its calls written down: the BKState it ends with, and for
\* every call, in the order of the calls, R, P and X on entry, the BKState
\* on entry (S) and the BKState after the test of lines 1059-1065 (T)
RECURSIVE BK_calls(_, _, _, _, _), BK_calls_loop(_, _, _, _, _, _)
BK_calls(R, P, X, S, nb) ==
    IF P = {} /\ X = {}
      THEN LET T == IF bk_improves(Cardinality(R), S.best_size)
                      THEN [best_size |-> Cardinality(R), best_R |-> R]
                      ELSE S
           IN  [S |-> T, calls |-> <<[R |-> R, P |-> P, X |-> X, S |-> S, T |-> T]>>]
      ELSE LET u == choose_pivot(P, X, nb)
               l == BK_calls_loop(IF u >= 0 THEN P \ nb[u] ELSE P, R, P, X, S, nb)
           IN  [S |-> l.S,
                calls |-> <<[R |-> R, P |-> P, X |-> X, S |-> S, T |-> S]>> \o l.calls]
BK_calls_loop(W, R, P, X, S, nb) ==
    IF W = {} THEN [S |-> S, calls |-> <<>>]
    ELSE LET v == bs_lowest(W)
             b == BK_calls(R \cup {v}, bk_restrict(P, nb, v), bk_restrict(X, nb, v), S, nb)
             l == BK_calls_loop(W \ {v}, R, P \ {v}, X \cup {v}, b.S, nb)
         IN  [S |-> l.S, calls |-> b.calls \o l.calls]

\* the calls of BK_recurse that max_clique(g) makes
max_clique_calls(g) ==
    BK_calls({}, 0..(g.V - 1), {}, [best_size |-> 0, best_R |-> {}], nb_build(g))

\* max_clique: the value returned, *clique_size_out and clique_out[0..]
max_clique(g) ==
    LET S == BK_recurse({}, 0..(g.V - 1), {},
                        [best_size |-> 0, best_R |-> {}], nb_build(g))
    IN  [k |-> S.best_size, got |-> S.best_size, cl |-> bs_ascending(S.best_R)]

\* the graphs the four algorithms are called with: every simple graph on
\* 1..AMaxV vertices
AlgoInit ==
    /\ \E V \in 1..AMaxV : \E S \in SUBSET PairsOf(V) : a_g = GraphOf(V, S)
    /\ a_fn = "none"
    /\ a_ret = <<>>

\* handle_maxclq: the body built from k, got and cl, line by line
handle_maxclq_body(r) ==
    <<<<"Max clique size = ", r.k>>>>
        \o (IF r.got > 0 THEN <<<<"Vertices: ">> \o SubSeq(r.cl, 1, r.got)>> ELSE <<>>)

\* handle_maxclq calls max_clique(R->g, cl, &got)
CallMaxClique ==
    /\ a_fn = "none"
    /\ a_ret' = max_clique(a_g)
    /\ a_fn' = "max_clique"
    /\ UNCHANGED a_g
    /\ UNCHANGED nonAlgoVars

(* count_cliques_3plus (server.c:1146-1204) *)

\* a variant of the counting test that counts triangles only
bk_counts_size_3_only(sizeR) == sizeR = 3

\* line 1149: if (sizeR >= 3) (*cnt)++
bk_counts(sizeR) == sizeR >= 3

\* BK_count_all: the value is *cnt after the call; BK_count_loop is its loop
\* over the snapshot Pc, which removes each v from P before it recurses
RECURSIVE BK_count_all(_, _, _, _, _), BK_count_loop(_, _, _, _, _, _)
BK_count_all(R, sizeR, P, nb, cnt) ==
    BK_count_loop(P, R, sizeR, P, nb, IF bk_counts(sizeR) THEN cnt + 1 ELSE cnt)
BK_count_loop(Pc, R, sizeR, P, nb, cnt) ==
    IF Pc = {} THEN cnt
    ELSE LET v  == bs_lowest(Pc)
             P2 == P \ {v}
         IN  BK_count_loop(Pc \ {v}, R, sizeR, P2, nb,
                           BK_count_all(R \cup {v}, sizeR + 1, P2 \cap nb[v], nb, cnt))

count_cliques_3plus(g) ==
    IF g.V <= 2 THEN 0
    ELSE BK_count_all({}, 0, 0..(g.V - 1), nb_build(g), 0)

\* handle_cntclq3p calls count_cliques_3plus(R->g)
CallCountCliques ==
    /\ a_fn = "none"
    /\ a_ret' = [cnt |-> count_cliques_3plus(a_g)]
    /\ a_fn' = "count_cliques_3plus"
    /\ UNCHANGED a_g
    /\ UNCHANGED nonAlgoVars

(* hamilton_cycle (server.c:1208-1265) *)

\* a variant of the closing test that accepts any last vertex
ham_closes_always(g, last, start) == 1

\* lines 1209-1212: the last vertex must be joined to start
ham_closes(g, last, start) == IF g.adj[last][start] # 0 THEN 1 ELSE 0

\* a variant of the tests of the for loop that also passes over prev + 1
ham_skip_also_successor(g, prev, v, used) ==
    g.adj[prev][v] = 0 \/ used[v] = 1 \/ degree(g, v) < 2 \/ v = prev + 1

\* lines 1217-1221: the three tests that make the for loop pass over v
ham_skip(g, prev, v, used) ==
    g.adj[prev][v] = 0 \/ used[v] = 1 \/ degree(g, v) < 2

\* ham_backtrack: path holds path[0..pos-1]; the value is what the call
\* returns and path[] as it leaves it; ham_for is its loop from v on
RECURSIVE ham_backtrack(_, _, _, _), ham_for(_, _, _, _, _)
ham_backtrack(g, start, path, used) ==
    IF Len(path) = g.V
      THEN [found |-> ham_closes(g, path[g.V], start), path |-> path]
      ELSE ham_for(g, start, path, used, 0)
ham_for(g, start, path, used, v) ==
    IF v >= g.V THEN [found |-> 0, path |-> path]
    ELSE IF ham_skip(g, path[Len(path)], v, used)
      THEN ham_for(g, start, path, used, v + 1)
      ELSE LET r == ham_backtrack(g, start, Append(path, v), [used EXCEPT ![v] = 1])
           IN  IF r.found = 1 THEN r ELSE ham_for(g, start, path, used, v + 1)

\* hamilton_cycle: the value returned, *cycle_out and *cycle_len_out
hamilton_cycle(g) ==
    IF g.V < 3 THEN [ret |-> 0, cycle |-> <<>>, len |-> 0]
    ELSE IF connected_among_non_isolated(g) = 0
      THEN [ret |-> 0, cycle |-> <<>>, len |-> 0]
    ELSE IF \E i \in 0..(g.V - 1) : degree(g, i) < 2
      THEN [ret |-> 0, cycle |-> <<>>, len |-> 0]
    ELSE LET r == ham_backtrack(g, 0, <<0>>, [i \in 0..(g.V - 1) |-> IF i = 0 THEN 1 ELSE 0])
         IN  IF r.found = 0 THEN [ret |-> 0, cycle |-> <<>>, len |-> 0]
             ELSE [ret |-> 1, cycle |-> Append(r.path, r.path[1]), len |-> g.V + 1]

\* handle_ham calls hamilton_cycle(R->g, &cyc, &L)
CallHamilton ==
    /\ a_fn = "none"
    /\ a_ret' = hamilton_cycle(a_g)
    /\ a_fn' = "hamilton_cycle"
    /\ UNCHANGED a_g
    /\ UNCHANGED nonAlgoVars

\* handle_euler and hamilton_cycle call connected_among_non_isolated(g)
CallConnected ==
    /\ a_fn = "none"
    /\ a_ret' = [ok |-> connected_among_non_isolated(a_g)]
    /\ a_fn' = "connected_among_non_isolated"
    /\ UNCHANGED a_g
    /\ UNCHANGED nonAlgoVars

AlgoNext ==
    \/ CallMaxClique
    \/ CallCountCliques
    \/ CallHamilton
    \/ CallConnected

(* ----------------------- claims on the graph model ------------------- *)

\* the invariant of the data model, on any graph value
GraphInvariant(g) ==
    LET Vs == 0..(g.V - 1) IN
    /\ DOMAIN g.adj = Vs /\ DOMAIN g.w = Vs
    /\ \A u \in Vs : DOMAIN g.adj[u] = Vs /\ DOMAIN g.w[u] = Vs
    /\ \A u, v \in Vs :
          /\ g.adj[u][v] \in {0, 1}
          /\ g.adj[u][v] = g.adj[v][u]
          /\ g.w[u][v] = g.w[v][u]
          /\ g.adj[u][v] = 1 => g.w[u][v] > 0
    /\ \A u \in Vs : g.adj[u][u] = 0
    /\ g.E = Cardinality({p \in Vs \X Vs : p[1] < p[2] /\ g.adj[p[1]][p[2]] = 1})

\* C9: after any sequence of add_edge calls, with arguments in and out of
\* range, on a graph from create(V): the adjacency matrix is symmetric with
\* zero diagonal and entries in {0,1}, the weight matrix is symmetric and
\* positive wherever adj = 1, and E is the number of 1s above the diagonal.
C9_GraphInvariant == GraphInvariant(gg)

\* C9 witness: after calls of which some were refused, the graph holds two
\* edges or more and the last add_edge_w call was refused
C9_Witness ==
    /\ gg.E >= 2
    /\ gcalls > gg.E
    /\ gret = 0

\* the calls add_edge must refuse on graph g: an endpoint out of range, a
\* self-loop, a weight that is not positive, a pair already joined
MustRefuse(g, u, v, w) ==
    \/ u < 0 \/ v < 0 \/ u >= g.V \/ v >= g.V
    \/ u = v
    \/ w <= 0
    \/ g.adj[u][v] # 0

\* C38: on every graph the calls can build, a call with an endpoint out of
\* range, with u = v, with a weight that is not positive or with a pair that
\* is already an edge returns 0 from add_edge_w and leaves the graph (V, E,
\* adj and w) as it was, in add_edge_w and in add_edge_local alike; every
\* other call adds the edge and add_edge_w returns 1; so an edge keeps for
\* ever the weight it was first given, whatever weight it is given again.
C38_RejectedAddEdge ==
    /\ [](\A u \in GArgs(gg.V), v \in GArgs(gg.V), w \in GWeights :
             IF MustRefuse(gg, u, v, w)
               THEN /\ add_edge_w(gg, u, v, w) = [g |-> gg, ret |-> 0]
                    /\ add_edge_local(gg, u, v, w) = gg
               ELSE /\ add_edge_w(gg, u, v, w).ret = 1
                    /\ add_edge_w(gg, u, v, w).g.E = gg.E + 1
                    /\ add_edge_w(gg, u, v, w).g.w[u][v] = w
                    /\ add_edge_local(gg, u, v, w) = add_edge_w(gg, u, v, w).g)
    /\ [][/\ gg' = gg \/ gg'.E = gg.E + 1
          /\ gg'.V = gg.V
          /\ \A u, v \in 0..(gg.V - 1) :
                gg.adj[u][v] = 1 => gg'.adj[u][v] = 1 /\ gg'.w[u][v] = gg.w[u][v]]_vars

\* the graph holds one edge of the largest weight after the last of the
\* calls, three of them refused and the last one by add_edge_w; the same
\* pair with a smaller weight is among the calls refused in this state
C38_Witness ==
    /\ gg.E = 1
    /\ gcalls = GMaxCalls
    /\ gret = 0
    /\ \E u, v \in 0..(gg.V - 1) :
          /\ gg.adj[u][v] = 1 /\ gg.w[u][v] = GMaxW
          /\ add_edge_w(gg, v, u, 1) = [g |-> gg, ret |-> 0]

(* ----------------------- claims on euler_circuit --------------------- *)

\* the edges of g as two-element sets, and the number of edges at a vertex,
\* both read off the adjacency matrix
EdgeSet(g) ==
    {{p[1], p[2]} : p \in {q \in (0..(g.V - 1)) \X (0..(g.V - 1)) :
                              q[1] # q[2] /\ g.adj[q[1]][q[2]] # 0}}
DegreeOf(g, u) == Cardinality({e \in EdgeSet(g) : u \in e})

\* the vertices joined to a vertex of S by a path: the least set that holds
\* S and is closed under edges
RECURSIVE Reachable(_, _)
Reachable(g, S) ==
    LET N == S \cup {v \in 0..(g.V - 1) : \E u \in S : {u, v} \in EdgeSet(g)}
    IN  IF N = S THEN S ELSE Reachable(g, N)

\* g is connected among its non-isolated vertices, and all degrees are even
ConnectedNonIsolated(g) ==
    LET NI == {v \in 0..(g.V - 1) : DegreeOf(g, v) > 0}
    IN  \A s \in NI : NI \subseteq Reachable(g, {s})
AllEven(g) == \A v \in 0..(g.V - 1) : DegreeOf(g, v) % 2 = 0

\* p is a closed walk of g that uses every edge exactly once
IsEulerCircuit(g, p) ==
    /\ Len(p) = g.E + 1
    /\ p[1] = p[g.E + 1]
    /\ \A i \in 1..g.E : {p[i], p[i + 1]} \in EdgeSet(g)
    /\ \A i, j \in 1..g.E : i # j => {p[i], p[i + 1]} # {p[j], p[j + 1]}
    /\ Cardinality(EdgeSet(g)) = g.E

\* C10: whenever euler_circuit returns success with path p, |p| = E + 1,
\* p[0] = p[E] and the unordered pairs {p[i], p[i+1]} are the edges of G,
\* each once; and it returns success exactly when G is connected among its
\* non-isolated vertices and every degree is even.
C10_EulerCircuit ==
    e_pc = "done" =>
        /\ e_ret \in {0, 1}
        /\ e_ret = 1 => IsEulerCircuit(e_g, e_out)
        /\ (e_ret = 1) <=> (ConnectedNonIsolated(e_g) /\ AllEven(e_g))

\* C10 witness: success on a graph of six edges or more whose circuit
\* passes through its start vertex again before it ends
C10_Witness ==
    /\ e_pc = "done" /\ e_ret = 1
    /\ e_g.E >= 6
    /\ \E i \in 2..e_g.E : e_out[i] = e_out[1]

\* the sum of all entries of a square matrix on 0..V-1
RECURSIVE MatrixSum(_, _, _)
MatrixSum(adj, V, n) == IF n = 0 THEN 0 ELSE RowSum(adj[n - 1], V) + MatrixSum(adj, V, n - 1)

\* C40: while euler_circuit is in its loop, and when it leaves it, the
\* working copy of the adjacency matrix is symmetric with entries 0 and 1
\* that are edges of the graph, deg[u] is the sum of row u of the copy, the
\* edges taken out of the copy so far number top + outLen - 1, and neither
\* the stack nor the output ever holds more than E + 1 vertices: stackCap and
\* outCap are E + 2 throughout, the realloc branches are never taken.
C40_HierholzerState ==
    (e_pc = "loop" \/ (e_pc = "done" /\ e_ret = 1)) =>
        /\ DOMAIN e_adj = 0..(e_g.V - 1)
        /\ \A u, v \in 0..(e_g.V - 1) :
              /\ e_adj[u][v] \in {0, 1}
              /\ e_adj[u][v] = e_adj[v][u]
              /\ e_adj[u][v] <= e_g.adj[u][v]
        /\ \A u \in 0..(e_g.V - 1) : e_deg[u] = RowSum(e_adj[u], e_g.V)
        /\ 2 * (e_g.E - (Len(e_stack) + Len(e_out) - 1)) = MatrixSum(e_adj, e_g.V, e_g.V)
        /\ Len(e_stack) <= e_g.E + 1
        /\ Len(e_out) <= e_g.E + 1
        /\ Len(e_stack) < e_stackCap /\ Len(e_out) < e_outCap
        /\ e_stackCap = e_g.E + 2 /\ e_outCap = e_g.E + 2

\* in the middle of a walk on a graph of six edges or more: the walk has
\* closed a first tour and backed up, vertices are in the output, others on
\* the stack, and edges are still left in the copy
C40_Witness ==
    /\ e_pc = "loop"
    /\ e_g.E >= 6
    /\ Len(e_out) >= 2
    /\ Len(e_stack) >= 3
    /\ \E u \in 0..(e_g.V - 1) : e_deg[u] > 0

(* ---------------- random mode in the acceptor workers ---------------- *)

\* srand: the state the source is put in by a seed
srand(seed) == seed % RandStates

\* rand: the state after one call; the value returned is the new state
rand(state) == (5 * state + 3) % RandStates

\* a variant of the lock in which pthread_mutex_lock returns at once
rng_mtx_never_held(holder) == TRUE

\* pthread_mutex_lock(&rng_mtx) returns when no thread holds the mutex
rng_mtx_free(holder) == holder = 0

\* the requests that pass the checks on E and V before create_graph
RandArgs ==
    {[E |-> E, V |-> V, seed |-> seed] :
        E \in 0..((RMaxV * (RMaxV - 1)) \div 2), V \in 1..RMaxV, seed \in 0..RMaxSeed}

RandChecked == {a \in RandArgs : a.E <= (a.V * (a.V - 1)) \div 2}

RandIdle ==
    /\ rng_state = srand(1)
    /\ rng_mtx = 0
    /\ r_pc = [w \in Workers |-> "idle"]
    /\ r_args = [w \in Workers |-> [E |-> 0, V |-> 1, seed |-> 0]]
    /\ r_g = [w \in Workers |-> create_graph(1)]
    /\ r_smp = [w \in Workers |-> <<>>]
    /\ r_done = {}
    /\ r_calls = 0

RandInit == RandIdle

\* a worker has parsed a random-mode header: g = create_graph(V)
RandRequest(w) ==
    /\ r_pc[w] = "idle"
    /\ r_calls < RMaxCalls
    /\ \E a \in RandChecked :
          /\ r_args' = [r_args EXCEPT ![w] = a]
          /\ r_g' = [r_g EXCEPT ![w] = create_graph(a.V)]
    /\ r_pc' = [r_pc EXCEPT ![w] = "lock"]
    /\ r_calls' = r_calls + 1
    /\ UNCHANGED <<rng_state, rng_mtx, r_smp, r_done>>
    /\ UNCHANGED nonRandVars

\* pthread_mutex_lock(&rng_mtx)
RandLock(w) ==
    /\ r_pc[w] = "lock"
    /\ rng_mtx_free(rng_mtx)
    /\ rng_mtx' = w
    /\ r_pc' = [r_pc EXCEPT ![w] = "srand"]
    /\ UNCHANGED <<rng_state, r_args, r_g, r_smp, r_done, r_calls>>
    /\ UNCHANGED nonRandVars

\* generate_random_graph: srand(seed)
RandSeed(w) ==
    /\ r_pc[w] = "srand"
    /\ rng_state' = srand(r_args[w].seed)
    /\ r_pc' = [r_pc EXCEPT ![w] = "loop"]
    /\ UNCHANGED <<rng_mtx, r_args, r_g, r_smp, r_done, r_calls>>
    /\ UNCHANGED nonRandVars

\* generate_random_graph: one rand() of an iteration of the while loop; the
\* third one is followed by add_edge_w(g, u, v, w)
RandSample(w) ==
    /\ r_pc[w] = "loop"
    /\ r_g[w].E < r_args[w].E
    /\ rng_state' = rand(rng_state)
    /\ IF Len(r_smp[w]) < 2
         THEN /\ r_smp' = [r_smp EXCEPT ![w] = Append(@, rand(rng_state))]
              /\ UNCHANGED r_g
         ELSE /\ r_smp' = [r_smp EXCEPT ![w] = <<>>]
              /\ r_g' = [r_g EXCEPT ![w] =
                            add_edge_w(@, r_smp[w][1] % @.V, r_smp[w][2] % @.V,
                                       (rand(rng_state) % GRAPH_RAND_WMAX) + 1).g]
    /\ UNCHANGED <<rng_mtx, r_pc, r_args, r_done, r_calls>>
    /\ UNCHANGED nonRandVars

\* generate_random_graph returns; pthread_mutex_unlock(&rng_mtx)
RandUnlock(w) ==
    /\ r_pc[w] = "loop"
    /\ r_g[w].E >= r_args[w].E
    /\ rng_mtx' = 0
    /\ r_done' = r_done \cup {[E |-> r_args[w].E, V |-> r_args[w].V,
                               seed |-> r_args[w].seed, g |-> r_g[w]]}
    /\ r_pc' = [r_pc EXCEPT ![w] = "idle"]
    /\ UNCHANGED <<rng_state, r_args, r_g, r_smp, r_calls>>
    /\ UNCHANGED nonRandVars

RandNext ==
    \/ \E w \in Workers : RandRequest(w)
    \/ \E w \in Workers : RandLock(w)
    \/ \E w \in Workers : RandSeed(w)
    \/ \E w \in Workers : RandSample(w)
    \/ \E w \in Workers : RandUnlock(w)

(* ------------- generate_random_graph on an arbitrary source ---------- *)

\* values rand() may return: the small ones, the one that gives the
\* greatest weight and the largest
RandValues == (0..(NMaxV - 1)) \cup {GRAPH_RAND_WMAX - 1, INT_MAX}

\* a variant of the loop test that leaves the loop one edge early
gen_loop_one_short(g, targetE) == g.E + 1 < targetE

\* while (g->E < targetE)
gen_loop(g, targetE) == g.E < targetE

GenIdle ==
    /\ n_g = create_graph(1)
    /\ n_targetE = 0
    /\ n_pc = "done"
    /\ n_smp = <<>>
    /\ n_retry = 0

\* the call: g = create_graph(V) and targetE <= V*(V-1)/2, as the caller
\* has checked; srand has been called
GenInit ==
    /\ \E V \in 1..NMaxV : \E E \in 0..((V * (V - 1)) \div 2) :
          /\ n_g = create_graph(V)
          /\ n_targetE = E
    /\ n_pc = "loop"
    /\ n_smp = <<>>
    /\ n_retry = 0

\* one iteration of the while loop with the three values rand() returned
GenIter(ru, rv, rw) ==
    /\ n_pc = "loop"
    /\ gen_loop(n_g, n_targetE)
    /\ \E r \in {add_edge_w(n_g, ru % n_g.V, rv % n_g.V, (rw % GRAPH_RAND_WMAX) + 1)} :
          /\ n_g' = r.g
          /\ n_retry' = IF r.ret = 1 THEN 0 ELSE n_retry + 1
          /\ r.ret = 0 => n_retry < NMaxRetry
    /\ n_smp' = <<ru % n_g.V, rv % n_g.V, (rw % GRAPH_RAND_WMAX) + 1>>
    /\ UNCHANGED <<n_targetE, n_pc>>
    /\ UNCHANGED nonGenVars

\* the loop test fails: return
GenReturn ==
    /\ n_pc = "loop"
    /\ ~gen_loop(n_g, n_targetE)
    /\ n_pc' = "done"
    /\ UNCHANGED <<n_g, n_targetE, n_smp, n_retry>>
    /\ UNCHANGED nonGenVars

GenNext ==
    \/ \E ru, rv, rw \in RandValues : GenIter(ru, rv, rw)
    \/ GenReturn

\* an iteration that places an edge
GenPlace ==
    \E ru, rv, rw \in RandValues : GenIter(ru, rv, rw) /\ n_g'.E = n_g.E + 1

\* the source produces every pair of vertices again and again, so a pair the
\* graph lacks is sampled in the end; and the thread runs
GenFairness ==
    /\ WF_vars(GenPlace)
    /\ WF_vars(GenReturn)

(* ---------------- the allocations on a request's way ----------------- *)

\* the allocations a request meets, in order: create_graph (server.c:693-707),
\* the StrBuf of the prefix (84), the Request (410), the QNode of the push to
\* the algorithm AO (127), the clique buffer of handle_maxclq (262), the work
\* buffers of the algorithm, the StrBuf of the body (84, 101), the SendTask
\* (204) and the QNode of the push to the sender (127)
MemSites == <<"graph", "prefix", "request", "node", "clique", "work", "body",
              "sendtask", "sendnode">>

\* the allocations a request with this command and flag goes through
MemMet(site, cmd, want_print) ==
    /\ site = "prefix" => want_print
    /\ site = "clique" => cmd = "MAXCLIQUE"

\* what the code does when the allocation returns NULL: exit(1), or close
\* the connection and return to the accept loop (server.c:411), or go on with
\* the NULL pointer (server.c:262-267, where cl[i] is then read)
on_alloc_failure(site) ==
    IF site = "request" THEN "return"
    ELSE IF site = "clique" THEN "unchecked"
    ELSE "exit"

\* the place after site i in MemSites for this request; 0 after the last
RECURSIVE MemAfter(_, _, _)
MemAfter(i, cmd, want_print) ==
    IF i >= Len(MemSites) THEN 0
    ELSE IF MemMet(MemSites[i + 1], cmd, want_print) THEN i + 1
    ELSE MemAfter(i + 1, cmd, want_print)

MemIdle ==
    /\ m_cmd = "EULER"
    /\ m_print = FALSE
    /\ m_pc = 0
    /\ m_proc = "running"
    /\ m_failed = {}
    /\ m_n = 0

MemInit == MemIdle

\* a request passes the header checks
MemRequest ==
    /\ m_proc = "running"
    /\ m_pc = 0
    /\ m_n < MemMaxReq
    /\ \E cmd \in Cmds : \E want_print \in BOOLEAN :
          /\ m_cmd' = cmd
          /\ m_print' = want_print
          /\ m_pc' = MemAfter(0, cmd, want_print)
    /\ m_n' = m_n + 1
    /\ UNCHANGED <<m_proc, m_failed>>
    /\ UNCHANGED nonMemVars

\* the allocation succeeds
MemAllocOk ==
    /\ m_proc = "running"
    /\ m_pc > 0
    /\ m_pc' = MemAfter(m_pc, m_cmd, m_print)
    /\ UNCHANGED <<m_cmd, m_print, m_proc, m_failed, m_n>>
    /\ UNCHANGED nonMemVars

\* the allocation returns NULL.  With "unchecked" max_clique is called with
\* clique_out = NULL and sets got = k >= 1, then handle_maxclq reads cl[0]
\* through the NULL pointer: the read is undefined, the process is ended by
\* the fault or goes on with whatever was read.
MemAllocFail ==
    /\ m_proc = "running"
    /\ m_pc > 0
    /\ m_failed' = m_failed \cup {MemSites[m_pc]}
    /\ \E how \in {on_alloc_failure(MemSites[m_pc])} :
          \/ /\ how = "exit"
             /\ m_proc' = "exited"
             /\ UNCHANGED m_pc
          \/ /\ how = "return"
             /\ m_pc' = 0
             /\ UNCHANGED m_proc
          \/ /\ how = "unchecked"
             /\ m_proc' = "exited"
             /\ UNCHANGED m_pc
          \/ /\ how = "unchecked"
             /\ m_pc' = MemAfter(m_pc, m_cmd, m_print)
             /\ UNCHANGED m_proc
    /\ UNCHANGED <<m_cmd, m_print, m_n>>
    /\ UNCHANGED nonMemVars

MemNext ==
    \/ MemRequest
    \/ MemAllocOk
    \/ MemAllocFail

(* ------------------------ one mailbox (Queue) ------------------------ *)

\* the threads that push (acceptor workers on an algorithm mailbox, algorithm
\* AOs on the sender's) and the one thread that pops (the AO's own)
Producers == 1..QProducers
Consumer  == QProducers + 1
QThreads  == 1..(QProducers + 1)
QNodes    == 1..(QProducers * QMaxPush)

\* q_init: head = tail = NULL; no thread is inside q_push or q_pop
QueueInit ==
    /\ q_hd = 0
    /\ q_tl = 0
    /\ q_next = [n \in QNodes |-> 0]
    /\ q_item = [n \in QNodes |-> <<>>]
    /\ q_mtx = 0
    /\ q_waiting = FALSE
    /\ q_pc = [t \in QThreads |-> "idle"]
    /\ q_n = [t \in QThreads |-> 0]
    /\ q_count = [t \in Producers |-> 0]
    /\ q_pushed = <<>>
    /\ q_popped = <<>>

QueueIdle == QueueInit

\* a variant of pthread_cond_signal that wakes no one
cond_signal_lost(waiting) == waiting

\* pthread_cond_signal(&q->cv): a thread blocked on the condition is released
cond_signal(waiting) == FALSE

\* q_push, lines 127-129: n = malloc(sizeof(QNode)); n->item = item;
\* n->next = NULL.  The item is the k-th of thread p.
PushAlloc(p) ==
    /\ q_pc[p] = "idle"
    /\ q_count[p] < QMaxPush
    /\ \E n \in {1 + Len(q_pushed) + Cardinality({t \in Producers : q_pc[t] = "lock"})} :
          /\ q_n' = [q_n EXCEPT ![p] = n]
          /\ q_item' = [q_item EXCEPT ![n] = <<p, q_count[p] + 1>>]
          /\ q_next' = [q_next EXCEPT ![n] = 0]
    /\ q_count' = [q_count EXCEPT ![p] = @ + 1]
    /\ q_pc' = [q_pc EXCEPT ![p] = "lock"]
    /\ UNCHANGED <<q_hd, q_tl, q_mtx, q_waiting, q_pushed, q_popped>>
    /\ UNCHANGED nonQueueVars

\* q_push, line 130: pthread_mutex_lock(&q->mtx) returns
PushLock(p) ==
    /\ q_pc[p] = "lock"
    /\ q_mtx = 0
    /\ q_mtx' = p
    /\ q_pushed' = Append(q_pushed, q_item[q_n[p]])
    /\ q_pc' = [q_pc EXCEPT ![p] = "link"]
    /\ UNCHANGED <<q_hd, q_tl, q_next, q_item, q_waiting, q_n, q_count, q_popped>>
    /\ UNCHANGED nonQueueVars

\* q_push, lines 131-132: if (!q->tail) q->head = q->tail = n;
\* else { q->tail->next = n; q->tail = n; }
PushLink(p) ==
    /\ q_pc[p] = "link"
    /\ IF q_tl = 0
         THEN q_hd' = q_n[p] /\ q_next' = q_next
         ELSE q_hd' = q_hd /\ q_next' = [q_next EXCEPT ![q_tl] = q_n[p]]
    /\ q_tl' = q_n[p]
    /\ q_pc' = [q_pc EXCEPT ![p] = "signal"]
    /\ UNCHANGED <<q_item, q_mtx, q_waiting, q_n, q_count, q_pushed, q_popped>>
    /\ UNCHANGED nonQueueVars

\* q_push, lines 133-134: pthread_cond_signal(&q->cv);
\* pthread_mutex_unlock(&q->mtx)
PushSignalUnlock(p) ==
    /\ q_pc[p] = "signal"
    /\ q_waiting' = cond_signal(q_waiting)
    /\ q_pc' = [t \in QThreads |->
                  IF t = p THEN "idle"
                  ELSE IF t = Consumer /\ q_waiting /\ ~cond_signal(q_waiting) THEN "relock"
                  ELSE q_pc[t]]
    /\ q_mtx' = 0
    /\ UNCHANGED <<q_hd, q_tl, q_next, q_item, q_n, q_count, q_pushed, q_popped>>
    /\ UNCHANGED nonQueueVars

\* q_pop, line 137: pthread_mutex_lock(&q->mtx) returns; also the lock taken
\* again when pthread_cond_wait returns
PopLock ==
    /\ q_pc[Consumer] \in {"idle", "relock"}
    /\ q_mtx = 0
    /\ q_mtx' = Consumer
    /\ q_pc' = [q_pc EXCEPT ![Consumer] = "test"]
    /\ UNCHANGED <<q_hd, q_tl, q_next, q_item, q_waiting, q_n, q_count, q_pushed, q_popped>>
    /\ UNCHANGED nonQueueVars

\* q_pop, line 138: while (!q->head) pthread_cond_wait(&q->cv, &q->mtx): with
\* the queue empty the thread releases the mutex and blocks on the condition,
\* in one step
PopWait ==
    /\ q_pc[Consumer] = "test"
    /\ q_hd = 0
    /\ q_mtx' = 0
    /\ q_waiting' = TRUE
    /\ q_pc' = [q_pc EXCEPT ![Consumer] = "waiting"]
    /\ UNCHANGED <<q_hd, q_tl, q_next, q_item, q_n, q_count, q_pushed, q_popped>>
    /\ UNCHANGED nonQueueVars

\* pthread_cond_wait may return with no signal sent (a spurious wake-up)
PopSpuriousWake ==
    /\ q_pc[Consumer] = "waiting"
    /\ q_waiting
    /\ q_waiting' = FALSE
    /\ q_pc' = [q_pc EXCEPT ![Consumer] = "relock"]
    /\ UNCHANGED <<q_hd, q_tl, q_next, q_item, q_mtx, q_n, q_count, q_pushed, q_popped>>
    /\ UNCHANGED nonQueueVars

\* q_pop, line 139, first half: QNode *n = q->head; q->head = n->next
PopUnlink ==
    /\ q_pc[Consumer] = "test"
    /\ q_hd # 0
    /\ q_n' = [q_n EXCEPT ![Consumer] = q_hd]
    /\ q_hd' = q_next[q_hd]
    /\ q_pc' = [q_pc EXCEPT ![Consumer] = "fixtail"]
    /\ UNCHANGED <<q_tl, q_next, q_item, q_mtx, q_waiting, q_count, q_pushed, q_popped>>
    /\ UNCHANGED nonQueueVars

\* a variant of line 139 that leaves q->tail as it is
pop_tail_kept(hd, tl) == tl

\* q_pop, line 139, second half: if (!q->head) q->tail = NULL
pop_tail(hd, tl) == IF hd = 0 THEN 0 ELSE tl

\* q_pop, lines 139-141: the tail is fixed, the mutex released, the item
\* taken out of the node and returned
PopFixTailUnlock ==
    /\ q_pc[Consumer] = "fixtail"
    /\ q_tl' = pop_tail(q_hd, q_tl)
    /\ q_mtx' = 0
    /\ q_popped' = Append(q_popped, q_item[q_n[Consumer]])
    /\ q_pc' = [q_pc EXCEPT ![Consumer] = "idle"]
    /\ UNCHANGED <<q_hd, q_next, q_item, q_waiting, q_n, q_count, q_pushed>>
    /\ UNCHANGED nonQueueVars

QueueNext ==
    \/ \E p \in Producers : PushAlloc(p)
    \/ \E p \in Producers : PushLock(p)
    \/ \E p \in Producers : PushLink(p)
    \/ \E p \in Producers : PushSignalUnlock(p)
    \/ PopLock
    \/ PopWait
    \/ PopSpuriousWake
    \/ PopUnlink
    \/ PopFixTailUnlock

\* Scheduling: a thread inside the critical section takes its next step, and
\* a thread blocked in pthread_mutex_lock gets the mutex if it is released
\* again and again (the popping thread may take it any number of times in
\* between, after spurious wake-ups).  Nothing is assumed of the wake-ups
\* that no signal caused, nor of new pushes being started.
QueueFairness ==
    /\ \A p \in Producers :
          SF_vars(PushLock(p)) /\ WF_vars(PushLink(p)) /\ WF_vars(PushSignalUnlock(p))
    /\ SF_vars(PopLock)
    /\ WF_vars(PopWait)
    /\ WF_vars(PopUnlink)
    /\ WF_vars(PopFixTailUnlock)

(* ------- the Leader-Follower server: handle_client, make_strategy ----- *)

\* algo.c:86-92: static const Pair TABLE[]
TABLE == <<[name |-> "EULER",      run |-> "strat_euler_run"],
           [name |-> "MST",        run |-> "strat_mst_run"],
           [name |-> "MAXCLIQUE",  run |-> "strat_maxclique_run"],
           [name |-> "COUNTCLQ3P", run |-> "strat_countclq3p_run"],
           [name |-> "HAMILTON",   run |-> "strat_hamilton_run"]>>

\* make_strategy's for loop: the index of the first entry named cmd, 0 if none
RECURSIVE table_find(_, _)
table_find(cmd, i) ==
    IF i > Len(TABLE) THEN 0
    ELSE IF TABLE[i].name = cmd THEN i
    ELSE table_find(cmd, i + 1)

\* the first tokens the clients send: the five commands and an unknown one
LFCmds == Cmds \cup {"BOGUS"}

\* static AlgoStrategy strat, zero-initialised; no worker is in handle_client
StratInit ==
    /\ strat = [name |-> "NULL", run |-> "NULL"]
    /\ hc_pc = [w \in Workers |-> "idle"]
    /\ hc_cmd = [w \in Workers |-> ""]
    /\ hc_S = [w \in Workers |-> "NULL"]
    /\ hc_ran = [w \in Workers |-> <<>>]
    /\ hc_n = 0

StratIdle == StratInit

\* handle_client, lines 126-141: the header is read and cmd = tok[0]; the
\* worker enters make_strategy(cmd).  No lock is held: the workers are past
\* the leader hand-off.
HcRequest(w) ==
    /\ hc_pc[w] = "idle"
    /\ hc_n < LFMaxReq
    /\ \E cmd \in LFCmds : hc_cmd' = [hc_cmd EXCEPT ![w] = cmd]
    /\ hc_n' = hc_n + 1
    /\ hc_pc' = [hc_pc EXCEPT ![w] = "lookup"]
    /\ UNCHANGED <<strat, hc_S, hc_ran>>
    /\ UNCHANGED nonStratVars

\* make_strategy with no entry named cmd: return NULL, and handle_client
\* answers ERR unknown ALGO and returns
HcUnknown(w) ==
    /\ hc_pc[w] = "lookup"
    /\ table_find(hc_cmd[w], 1) = 0
    /\ hc_ran' = [hc_ran EXCEPT ![w] = Append(@, [cmd |-> hc_cmd[w], run |-> "ERR"])]
    /\ hc_pc' = [hc_pc EXCEPT ![w] = "idle"]
    /\ UNCHANGED <<strat, hc_cmd, hc_S, hc_n>>
    /\ UNCHANGED nonStratVars

\* make_strategy, algo.c:98: strat.name = TABLE[i].name
MakeStrategyName(w) ==
    /\ hc_pc[w] = "lookup"
    /\ table_find(hc_cmd[w], 1) # 0
    /\ strat' = [strat EXCEPT !.name = TABLE[table_find(hc_cmd[w], 1)].name]
    /\ hc_pc' = [hc_pc EXCEPT ![w] = "fill"]
    /\ UNCHANGED <<hc_cmd, hc_S, hc_ran, hc_n>>
    /\ UNCHANGED nonStratVars

\* make_strategy, algo.c:99-100: strat.run = TABLE[i].run; return &strat
MakeStrategyRun(w) ==
    /\ hc_pc[w] = "fill"
    /\ strat' = [strat EXCEPT !.run = TABLE[table_find(hc_cmd[w], 1)].run]
    /\ hc_S' = [hc_S EXCEPT ![w] = "&strat"]
    /\ hc_pc' = [hc_pc EXCEPT ![w] = "build"]
    /\ UNCHANGED <<hc_cmd, hc_ran, hc_n>>
    /\ UNCHANGED nonStratVars

\* handle_client, lines 147-211: the parameters are checked, the graph is
\* built, and (S->run)(g, emit_to_fd, &cfd) calls whatever strat.run holds
\* at that moment; or a check fails and the worker returns after the ERR line
HcRun(w) ==
    /\ hc_pc[w] = "build"
    /\ \E ok \in BOOLEAN :
          hc_ran' = [hc_ran EXCEPT ![w] =
                       Append(@, [cmd |-> hc_cmd[w], run |-> IF ok THEN strat.run ELSE "ERR"])]
    /\ hc_S' = [hc_S EXCEPT ![w] = "NULL"]
    /\ hc_pc' = [hc_pc EXCEPT ![w] = "idle"]
    /\ UNCHANGED <<strat, hc_cmd, hc_n>>
    /\ UNCHANGED nonStratVars

StratNext ==
    \/ \E w \in Workers : HcRequest(w)
    \/ \E w \in Workers : HcUnknown(w)
    \/ \E w \in Workers : MakeStrategyName(w)
    \/ \E w \in Workers : MakeStrategyRun(w)
    \/ \E w \in Workers : HcRun(w)

(* --------------------------- specifications -------------------------- *)

Init == PipeInit /\ GraphIdle /\ EulerIdle /\ ParseIdle /\ AlgoIdle /\ RandIdle /\ GenIdle /\ MemIdle /\ FineIdle /\ QueueIdle /\ StratIdle

Next == PipeNext

Spec == Init /\ [][Next]_vars

\* Scheduling: every thread is a loop that never ends (ao_thread_main,
\* worker_main) and the mutexes are held for a few statements only, so a
\* thread that can take its next step takes it; a push signals the condition
\* variable under the mutex, so a pop that can proceed does.  The handler of
\* an algorithm AO returns (the algorithm terminates), and each write(2)
\* returns having written something or failed.  No fairness is put on
\* accept: clients come when they come.
PipeFairness ==
    /\ \A w \in Workers : WF_vars(LeaderRelease(w)) /\ WF_vars(HandleClient(w))
    /\ \A a \in AlgoAOs : WF_vars(AoPop(a)) /\ WF_vars(AoHandle(a))
    /\ WF_vars(SenderPop)
    /\ WF_vars(SenderWrite)
    /\ WF_vars(SenderClose)

SpecLive == Init /\ [][Next]_vars /\ PipeFairness

\* The same scheduling with nothing assumed of the algorithm AOs: a handler
\* may run for ever.
BusyFairness ==
    /\ \A w \in Workers : WF_vars(LeaderRelease(w)) /\ WF_vars(HandleClient(w))
    /\ WF_vars(SenderPop)
    /\ WF_vars(SenderWrite)
    /\ WF_vars(SenderClose)

SpecBusy == Init /\ [][Next]_vars /\ BusyFairness

NextSig == SigNext

SpecSig == Init /\ [][NextSig]_vars

NextFine == FineNext

SpecFine == Init /\ [][NextFine]_vars

\* the five algorithms called on one graph: euler_circuit step by step, the
\* four others each in one call
InitReadOnly ==
    /\ EulerInit
    /\ a_g = e_g /\ a_fn = "none" /\ a_ret = <<>>
    /\ PipeInit /\ GraphIdle /\ ParseIdle /\ RandIdle /\ GenIdle /\ MemIdle /\ FineIdle /\ QueueIdle /\ StratIdle

NextReadOnly ==
    \/ EulerNext
    \/ MstNext
    \/ AlgoNext

SpecReadOnly == InitReadOnly /\ [][NextReadOnly]_vars

InitQueue == QueueInit /\ PipeInit /\ GraphIdle /\ EulerIdle /\ ParseIdle /\ AlgoIdle /\ RandIdle /\ GenIdle /\ MemIdle /\ FineIdle /\ StratIdle

NextQueue == QueueNext

SpecQueue == InitQueue /\ [][NextQueue]_vars /\ QueueFairness

NextRoute == RouteNext

SpecRoute == Init /\ [][NextRoute]_vars

InitStrat == StratInit /\ PipeInit /\ GraphIdle /\ EulerIdle /\ ParseIdle /\ AlgoIdle /\ RandIdle /\ GenIdle /\ MemIdle /\ FineIdle /\ QueueIdle

NextStrat == StratNext

SpecStrat == InitStrat /\ [][NextStrat]_vars

\* Scheduling of the workers around the leadership: lf_mtx is held for a
\* few statements only, so a worker at the top of its loop, or back from the
\* condition wait, gets the mutex and makes its test of has_leader.  Nothing
\* is assumed of accept, of the clients, or of spurious wake-ups.
LeadFairness == \A w \in Workers : WF_vars(LeaderEnter(w))

SpecLead == Init /\ [][Next]_vars /\ LeadFairness

NextOwn == OwnNext

SpecOwn == Init /\ [][NextOwn]_vars

InitGraph == GraphInit /\ PipeInit /\ EulerIdle /\ ParseIdle /\ AlgoIdle /\ RandIdle /\ GenIdle /\ MemIdle /\ FineIdle /\ QueueIdle /\ StratIdle

NextGraph == GraphNext

SpecGraph == InitGraph /\ [][NextGraph]_vars

InitEuler == EulerInit /\ PipeInit /\ GraphIdle /\ ParseIdle /\ AlgoIdle /\ RandIdle /\ GenIdle /\ MemIdle /\ FineIdle /\ QueueIdle /\ StratIdle

NextEuler == EulerNext

SpecEuler == InitEuler /\ [][NextEuler]_vars

InitParse == ParseInit /\ PipeInit /\ GraphIdle /\ EulerIdle /\ AlgoIdle /\ RandIdle /\ GenIdle /\ MemIdle /\ FineIdle /\ QueueIdle /\ StratIdle

NextParse == ParseNext

SpecParse == InitParse /\ [][NextParse]_vars

InitMst == MstInit /\ PipeInit /\ GraphIdle /\ EulerIdle /\ ParseIdle /\ RandIdle /\ GenIdle /\ MemIdle /\ FineIdle /\ QueueIdle /\ StratIdle

NextMst == MstNext

SpecMst == InitMst /\ [][NextMst]_vars

InitAlgo == AlgoInit /\ PipeInit /\ GraphIdle /\ EulerIdle /\ ParseIdle /\ RandIdle /\ GenIdle /\ MemIdle /\ FineIdle /\ QueueIdle /\ StratIdle

NextAlgo == AlgoNext

SpecAlgo == InitAlgo /\ [][NextAlgo]_vars

InitRand == RandInit /\ PipeInit /\ GraphIdle /\ EulerIdle /\ ParseIdle /\ AlgoIdle /\ GenIdle /\ MemIdle /\ FineIdle /\ QueueIdle /\ StratIdle

NextRand == RandNext

SpecRand == InitRand /\ [][NextRand]_vars

InitGen == GenInit /\ PipeInit /\ GraphIdle /\ EulerIdle /\ ParseIdle /\ AlgoIdle /\ RandIdle /\ MemIdle /\ FineIdle /\ QueueIdle /\ StratIdle

NextGen == GenNext

SpecGen == InitGen /\ [][NextGen]_vars /\ GenFairness

InitMem == MemInit /\ PipeInit /\ GraphIdle /\ EulerIdle /\ ParseIdle /\ AlgoIdle /\ RandIdle /\ GenIdle /\ FineIdle /\ QueueIdle /\ StratIdle

NextMem == MemNext

SpecMem == InitMem /\ [][NextMem]_vars

(* ------------------------ claims on the pipeline --------------------- *)

\* the connections accepted so far
Accepted == 1..nconn

\* how many times connection c was closed, and who wrote to it or closed it
Closes(c)  == Cardinality({i \in 1..Len(log[c]) : log[c][i].op = "close"})
Writes(c)  == Cardinality({i \in 1..Len(log[c]) : log[c][i].op = "write"})
Actors(c)  == {log[c][i].who : i \in 1..Len(log[c])}

\* connection c is still held by some thread or queued in some mailbox
InFlight(c) ==
    \/ \E w \in Workers : wcfd[w] = c
    \/ \E a \in AlgoAOs : \/ \E i \in 1..Len(aoq[a]) : aoq[a][i].cfd = c
                          \/ (aojob[a] # <<>> /\ aojob[a][1].cfd = c)
    \/ \E i \in 1..Len(sq) : sq[i].cfd = c
    \/ (sjob # <<>> /\ sjob[1].cfd = c)

\* s is an initial segment of t
IsPrefix(s, t) == Len(s) <= Len(t) /\ s = SubSeq(t, 1, Len(s))

\* C1: every accepted connection is closed exactly once on every path: no
\* connection is ever closed twice, nothing is written or closed on it after
\* its close, a connection whose processing is over (no thread holds it and
\* no mailbox queues it) has been closed, by the worker when no Request was
\* routed for it and by the sender when one was.
C1_ClosedExactlyOnce ==
    \A c \in Conns :
        /\ Closes(c) <= 1
        /\ \A i \in 1..Len(log[c]) : log[c][i].op = "close" => i = Len(log[c])
        /\ (c \in Accepted /\ ~InFlight(c)) =>
              /\ Closes(c) = 1
              /\ log[c][Len(log[c])].who = IF enq[c] = <<>> THEN "worker" ELSE "sender"
        /\ c \notin Accepted => log[c] = <<>>

\* C1 witness: one connection closed by its worker on an error path and
\* another closed by the sender after its response
C1_Witness ==
    \E c, d \in Accepted :
        /\ ~InFlight(c) /\ ~InFlight(d)
        /\ enq[c] = <<>> /\ Closes(c) = 1
        /\ enq[d] # <<>> /\ Closes(d) = 1 /\ d \in wfail

\* C2: at most one worker is between setting has_leader = 1 and clearing it
\* (in accept, or back from accept and about to release), and has_leader is
\* 1 exactly while there is one.
C2_OneLeader ==
    LET leaders == {w \in Workers : wpc[w] \in {"accept", "release"}}
    IN  /\ Cardinality(leaders) <= 1
        /\ (has_leader = 1) <=> (leaders # {})
        /\ has_leader \in {0, 1}

\* C2 witness: one worker is the leader, in accept, while another one, woken
\* from the condition wait, is about to test has_leader again
C2_Witness ==
    \E w, x \in Workers :
        /\ wpc[w] = "accept" /\ wpc[x] = "woken"
        /\ has_leader = 1

\* C3: two Requests pushed into the same AO's mailbox are answered in that
\* order: the sender takes up (and writes) the responses of the Requests of
\* one AO in the order those Requests were pushed, whatever the other AOs do;
\* each AO pops its Requests in push order, one at a time, and the sender
\* pops the SendTasks in push order.
C3_PipelineFifo ==
    /\ \A a \in AlgoAOs :
          LET mine == {pushOrder[a][i] : i \in 1..Len(pushOrder[a])}
          IN  /\ IsPrefix(SelectSeq(sendOrder, LAMBDA c : c \in mine), pushOrder[a])
              /\ IsPrefix(popOrder[a], pushOrder[a])
              /\ Len(pushOrder[a]) = Len(popOrder[a]) + Len(aoq[a])
              /\ Len(aojob[a]) <= 1
    /\ IsPrefix(sendOrder, spushOrder)
    /\ Len(spushOrder) = Len(sendOrder) + Len(sq)

\* C3 witness: the Request of the connection accepted second was pushed into
\* an AO's mailbox before the Request of the one accepted first (by two
\* workers), and the sender has written their responses in that order
C3_Witness ==
    /\ \E a \in AlgoAOs : pushOrder[a] = <<2, 1>> /\ popOrder[a] = <<2, 1>>
    /\ sendOrder = <<2, 1>>
    /\ Writes(1) = 1 /\ Writes(2) = 1

\* C4: for every dispatched request one SendTask is built, its text is the
\* prefix (present exactly when -p was given) followed by the body of the
\* request's algorithm on the request's graph; the sender alone writes on
\* the connection, passes that text to one write_all call and closes
\* afterwards; what reaches the socket is an initial segment of the text,
\* and all of it unless write_all failed.
C4_ResponseBytes ==
    \A c \in Conns : enq[c] # <<>> =>
        LET R    == enq[c][1].R
            text == (IF enq[c][1].want_print THEN <<PrefixText(R.g)>> ELSE <<>>)
                        \o <<BodyText(R.cmd, R.g)>>
        IN  /\ Len(enq[c]) = 1
            /\ Len(tasks[c]) <= 1
            /\ tasks[c] # <<>> => tasks[c][1] = SendTask(c, text)
            /\ Actors(c) \subseteq {"sender"}
            /\ Writes(c) <= 1
            /\ IsPrefix(log[c], <<Ev("sender", "write"), Ev("sender", "close")>>)
            /\ IsPrefix(wire[c], text)
            /\ (Closes(c) = 1 /\ c \notin wfail) => wire[c] = text
            /\ (c \in wfail) => wire[c] # text

\* C4 witness: a request with -p and one without have both been answered in
\* full and closed
C4_Witness ==
    \E c, d \in Conns :
        /\ enq[c] # <<>> /\ enq[c][1].want_print /\ Closes(c) = 1 /\ Len(wire[c]) = 2
        /\ enq[d] # <<>> /\ ~enq[d][1].want_print /\ Closes(d) = 1 /\ Len(wire[d]) = 1

\* C5 as stated: only the sender ever writes to or closes a client socket.
C5_Original == \A c \in Conns : Actors(c) \subseteq {"sender"}

\* C5, amended: once a Request is routed for a connection only the sender
\* writes to it or closes it; a connection for which no Request was routed
\* is written to (the ERR text) and closed by its worker, never by the
\* sender; the algorithm AOs touch no socket.
C5_SenderAfterDispatch ==
    \A c \in Conns :
        /\ enq[c] # <<>> => Actors(c) \subseteq {"sender"}
        /\ enq[c] = <<>> => Actors(c) \subseteq {"worker"}
        /\ Actors(c) \subseteq {"worker", "sender"}

\* C5 witness: a worker has written the ERR text to one connection and closed
\* it, and the sender has written to another
C5_Witness ==
    \E c, d \in Conns :
        /\ log[c] = <<Ev("worker", "write"), Ev("worker", "close")>>
        /\ wire[c] = <<ErrText>>
        /\ Writes(d) = 1 /\ Actors(d) = {"sender"}

\* the events of one thread in the graph log of connection c, in order, and
\* the number of times the graph of c was freed
GraphUseBy(c, who) == SelectSeq(glog[c], LAMBDA e : e.who = who)
GraphFrees(c) == Cardinality({i \in 1..Len(glog[c]) : glog[c][i].op = "free"})

\* the threads that hold the Request of connection c and act on its graph:
\* the worker inside handle_client_header_and_dispatch, the AO handling it
GraphHolders(c) ==
    {w \in Workers : wcfd[w] = c /\ wpc[w] = "handle"}
      \cup {a \in AlgoAOs : aojob[a] # <<>> /\ aojob[a][1].cfd = c}

\* C17: each Graph is used by one thread at a time.  The worker's uses
\* (create, the read for the -p prefix) all come before the push and none
\* after it; the AO the Request was routed to is the only other thread to
\* use the graph, it reads it and then frees it; the sender never uses a
\* graph; nothing follows the free; a graph is freed once: by the AO when
\* the Request was routed, by the worker on the error paths that built one.
C17_GraphOwnership ==
    \A c \in Conns :
        /\ Cardinality(GraphHolders(c)) <= 1
        /\ GraphFrees(c) <= 1
        /\ \A i \in 1..Len(glog[c]) : glog[c][i].op = "free" => i = Len(glog[c])
        /\ GraphUseBy(c, "sender") = <<>>
        /\ enq[c] = <<>> => glog[c] \in {<<>>, worker_builds_and_frees(TRUE)}
        /\ enq[c] # <<>> =>
              LET R  == enq[c][1].R
                  ao == route_to_ao(R.cmd)
              IN  /\ GraphUseBy(c, "worker") = worker_builds(enq[c][1].want_print)
                  /\ glog[c] = GraphUseBy(c, "worker") \o GraphUseBy(c, ao)
                  /\ GraphUseBy(c, ao) \in {<<>>, <<Ev(ao, "read"), Ev(ao, "free")>>}
                  /\ (GraphUseBy(c, ao) # <<>>) <=> (tasks[c] # <<>>)
                  /\ (\E a \in AlgoAOs : aojob[a] # <<>> /\ aojob[a][1].cfd = c)
                        => GraphUseBy(c, ao) = <<>>
        /\ (c \in Accepted /\ ~InFlight(c) /\ glog[c] # <<>>) => GraphFrees(c) = 1

\* C17 witness: the AO has read and freed the graph of a routed -p request
\* while the worker that pushed it has not yet returned to its loop, and
\* the graph of another connection was freed by its worker on an error path
C17_Witness ==
    \E c, d \in Conns :
        /\ enq[c] # <<>> /\ Len(glog[c]) = 4 /\ GraphFrees(c) = 1
        /\ \E w \in Workers : wcfd[w] = c /\ wpc[w] = "routed"
        /\ enq[d] = <<>> /\ glog[d] = worker_builds_and_frees(TRUE)

\* how many times the Request of connection c was popped by an algorithm AO
TimesPopped(c) ==
    Cardinality({<<a, i>> \in AlgoAOs \X (1..MaxConn) :
                    i <= Len(popOrder[a]) /\ popOrder[a][i] = c})

\* the Request routed for c has been answered: one SendTask was produced,
\* its text was written in full or the write failed, the connection is
\* closed and nothing of the request is left in the pipeline
Answered(c) ==
    /\ Len(tasks[c]) = 1
    /\ TimesPopped(c) = 1
    /\ wire[c] = tasks[c][1].text \/ c \in wfail
    /\ Closes(c) = 1
    /\ ~(\E a \in AlgoAOs : \/ \E i \in 1..Len(aoq[a]) : aoq[a][i].cfd = c
                             \/ (aojob[a] # <<>> /\ aojob[a][1].cfd = c))
    /\ ~(\E i \in 1..Len(sq) : sq[i].cfd = c)
    /\ ~(sjob # <<>> /\ sjob[1].cfd = c)

OthersRun(b) ==
    \A a \in AlgoAOs \ {b} : WF_vars(AoPop(a)) /\ WF_vars(AoHandle(a))

\* C19: algorithm AOs do not wait for one another.  Whatever one AO b does,
\* be it stuck in a job for ever, every Request for another algorithm is
\* eventually computed, sent and closed, provided its own AO and the sender
\* run; and an AO that holds a job can always finish it: the push of the
\* SendTask into the sender's mailbox is possible in every state.
C19_NoOrderAcrossAOs ==
    /\ [](\A a \in AlgoAOs : aojob[a] # <<>> => ENABLED AoHandle(a))
    /\ \A b \in {"AO_EULER", "AO_MST"} :
          OthersRun(b) =>
            \A c \in Conns :
                (enq[c] # <<>> /\ enq[c][1].R.cmd # ao_handle(b)) ~> Answered(c)

\* C19 witness: the Request routed first is still with its AO, popped and
\* not yet computed, while the Request routed second, for another
\* algorithm, has been computed, sent in full and closed
C19_Witness ==
    \E c, d \in Conns :
        /\ enq[c] # <<>> /\ enq[d] # <<>>
        /\ enq[c][1].nth = 1 /\ enq[d][1].nth = 2
        /\ enq[c][1].R.cmd # enq[d][1].R.cmd
        /\ \E a \in AlgoAOs : aojob[a] # <<>> /\ aojob[a][1].cfd = c
        /\ Answered(d) /\ d \notin wfail

\* the other order: the two Requests, for different algorithms, were
\* answered in the order in which they were routed
C19_InOrder ==
    \E c, d \in Conns :
        /\ enq[c] # <<>> /\ enq[d] # <<>>
        /\ enq[c][1].nth = 1 /\ enq[d][1].nth = 2
        /\ enq[c][1].R.cmd # enq[d][1].R.cmd
        /\ sendOrder = <<c, d>>
        /\ Answered(c) /\ Answered(d)

(* ------------------------ claims on random mode ---------------------- *)

\* generate_random_graph run alone: the loop from graph g and source state
\* st, at most n iterations
RECURSIVE LoopAlone(_, _, _, _)
LoopAlone(g, targetE, st, n) ==
    IF g.E >= targetE \/ n = 0 THEN g
    ELSE LoopAlone(add_edge_w(g, rand(st) % g.V, rand(rand(st)) % g.V,
                              (rand(rand(rand(st))) % GRAPH_RAND_WMAX) + 1).g,
                   targetE, rand(rand(rand(st))), n - 1)

\* the graph of (E, V, SEED): what the call builds when no other thread runs
GraphOfTriple(E, V, seed) ==
    LoopAlone(create_graph(V), E, srand(seed), RandStates * (E + 1))

SameTriple(x, y) == x.E = y.E /\ x.V = y.V /\ x.seed = y.seed

\* C20: the graph built for a random-mode request depends on E, V and SEED
\* alone.  Between srand and the return of generate_random_graph the worker
\* holds rng_mtx, so no other worker seeds or samples in between; every call
\* that returned built the graph the call builds when run alone, and two
\* calls with the same triple built the same adjacency and weight matrices.
C20_RandomDeterminism ==
    /\ \A w \in Workers : r_pc[w] \in {"srand", "loop"} => rng_mtx = w
    /\ \A x \in r_done : x.g = GraphOfTriple(x.E, x.V, x.seed)
    /\ \A x, y \in r_done :
          SameTriple(x, y) => x.g.adj = y.g.adj /\ x.g.w = y.g.w

\* C20 witness: a call with two edges or more has returned; a second worker,
\* given the same triple, has filled its graph and still holds the mutex
\* while the other worker waits for it with a request of another seed
C20_Witness ==
    \E x \in r_done : \E w, v \in Workers :
        /\ x.E >= 2
        /\ r_pc[w] = "loop" /\ SameTriple(r_args[w], x)
        /\ r_g[w].E = x.E /\ r_g[w] = x.g
        /\ v # w /\ r_pc[v] = "lock" /\ r_args[v].seed # x.seed

(* ------------------ claims on generate_random_graph ------------------ *)

\* a simple graph with weights in 1..GRAPH_RAND_WMAX on its edges and 0
\* elsewhere
SimpleWeighted(g) ==
    \A i, j \in 0..(g.V - 1) :
        /\ g.adj[i][j] \in {0, 1} /\ g.adj[i][j] = g.adj[j][i]
        /\ g.w[i][j] = g.w[j][i]
        /\ g.adj[i][i] = 0
        /\ g.adj[i][j] = 1 => g.w[i][j] \in 1..GRAPH_RAND_WMAX
        /\ g.adj[i][j] = 0 => g.w[i][j] = 0

DistinctEdges(g) ==
    Cardinality({p \in (0..(g.V - 1)) \X (0..(g.V - 1)) : p[1] < p[2] /\ g.adj[p[1]][p[2]] = 1})

\* the sample names a self-loop or an edge the graph has
Rejected(g, smp) == smp[1] = smp[2] \/ g.adj[smp[1]][smp[2]] # 0

\* C21: for V >= 1 and 0 <= E <= V(V-1)/2, generate_random_graph returns, when
\* the source keeps producing every pair of vertices; the graph it returns is
\* simple, has exactly E distinct edges, each of a weight in
\* 1..GRAPH_RAND_WMAX; an iteration whose sample is a self-loop or names an
\* edge already present leaves the graph as it was, and the loop goes on.
C21_RandomGraphBuilt ==
    /\ <>(n_pc = "done")
    /\ [](/\ SimpleWeighted(n_g)
          /\ n_g.E = DistinctEdges(n_g)
          /\ n_pc = "done" => n_g.E = n_targetE)
    /\ [][(n_pc' = "loop" /\ n_smp' # <<>> /\ Rejected(n_g, n_smp'))
                => (n_g' = n_g /\ gen_loop(n_g', n_targetE))]_vars

\* C21 witness: the call has returned the complete graph on three vertices
\* with the least and the greatest weight both drawn
C21_Witness ==
    /\ n_pc = "done"
    /\ n_g.V = 3 /\ n_g.E = 3 /\ n_targetE = 3
    /\ \E i, j \in 0..2 : n_g.w[i][j] = 1
    /\ \E i, j \in 0..2 : n_g.w[i][j] = GRAPH_RAND_WMAX

(* ------------------------ claims on handle_euler --------------------- *)

\* the vertices of odd degree
OddVertices(g) == {v \in 0..(g.V - 1) : DegreeOf(g, v) % 2 # 0}

\* C24: on a graph without edges, whatever V >= 1, connected_among_non_isolated
\* returns 1, every degree is even, euler_circuit returns 1 with the path
\* <<0>> of length 1 = E + 1, and the body is "Euler circuit exists."
\* followed by the line holding vertex 0.
C24_EdgelessEuler ==
    (e_pc = "done" /\ e_g.E = 0) =>
        /\ connected_among_non_isolated(e_g) = 1
        /\ all_even_degrees(e_g) = 1
        /\ e_ret = 1
        /\ e_out = <<0>> /\ Len(e_out) = e_g.E + 1
        /\ handle_euler_body(e_g, e_ret, e_out) = <<EulerExists, <<0>>>>

\* C24 witness: euler_circuit has returned on the graph of five vertices
\* and no edge
C24_Witness ==
    /\ e_pc = "done" /\ e_ret = 1
    /\ e_g.V = 5 /\ e_g.E = 0
    /\ Len(handle_euler_body(e_g, e_ret, e_out)) = 2

\* C25: handle_euler tests the connectivity among non-isolated vertices
\* first and the parity second.  A graph failing both gets the message on
\* disconnection; a connected graph with n > 0 vertices of odd degree gets
\* the message carrying n; the circuit is emitted when both hold, and then
\* only; the path 0-1-2-3 on four vertices gets the message carrying 2.
C25_EulerCheckOrder ==
    e_pc = "done" =>
        LET body == handle_euler_body(e_g, e_ret, e_out)
            n    == Cardinality(OddVertices(e_g))
        IN  /\ ~ConnectedNonIsolated(e_g) => body = <<EulerDisconnected>>
            /\ (ConnectedNonIsolated(e_g) /\ n > 0) => body = <<EulerOdd(n)>>
            /\ (ConnectedNonIsolated(e_g) /\ n = 0) <=> body[1] = EulerExists
            /\ body[1] = EulerExists => (Len(body) = 2 /\ IsEulerCircuit(e_g, body[2]))
            /\ e_g = GraphOf(4, {<<0, 1>>, <<1, 2>>, <<2, 3>>}) => body = <<EulerOdd(2)>>

\* C25 witness: a graph that is disconnected among its non-isolated
\* vertices and has vertices of odd degree has been answered
C25_Witness ==
    /\ e_pc = "done"
    /\ ~ConnectedNonIsolated(e_g)
    /\ Cardinality(OddVertices(e_g)) = 4
    /\ handle_euler_body(e_g, e_ret, e_out) = <<EulerDisconnected>>

Reverse(q) == [i \in 1..Len(q) |-> q[Len(q) + 1 - i]]

\* C26 as stated: the sequence emitted lists the vertices in the order in
\* which they were pushed.
C26_Original ==
    (e_pc = "done" /\ e_ret = 1) =>
        /\ e_out = e_walk
        /\ e_out[1] = first_with_degree(e_g, 0, 0)

\* C26: the sequence emitted lists the vertices in the order in which they
\* were popped from the stack, each one when no edge was left at it.  It is
\* an Euler circuit that starts and ends at the lowest non-isolated vertex
\* and holds each pushed vertex once; when the pushes themselves form the
\* circuit it is that walk reversed (the triangle: pushed 0 1 2 0, emitted
\* 0 2 1 0).
C26_EulerOutputOrder ==
    (e_pc = "done" /\ e_ret = 1) =>
        /\ IsEulerCircuit(e_g, e_out)
        /\ e_out[1] = first_with_degree(e_g, 0, 0)
        /\ e_walk[1] = e_out[1]
        /\ Len(e_walk) = Len(e_out)
        /\ \A v \in 0..(e_g.V - 1) :
              Cardinality({i \in 1..Len(e_out) : e_out[i] = v})
                  = Cardinality({i \in 1..Len(e_walk) : e_walk[i] = v})
        /\ IsEulerCircuit(e_g, e_walk) => e_out = Reverse(e_walk)
        /\ e_g = GraphOf(3, PairsOf(3)) =>
              (e_walk = <<0, 1, 2, 0>> /\ e_out = <<0, 2, 1, 0>>)

\* C26 witness: a circuit has been emitted that is neither the sequence of
\* the pushes nor that sequence reversed
C26_Witness ==
    /\ e_pc = "done" /\ e_ret = 1
    /\ e_g.E >= 6
    /\ e_out # e_walk
    /\ e_out # Reverse(e_walk)

(* --------------------- claims on the leader handoff ------------------ *)

\* the workers between the wait loop and the handoff: the leader
Leaders == {w \in Workers : wpc[w] \in {"accept", "release"}}

\* C28: a worker enters handle_client_header_and_dispatch only from the
\* handoff, which has cleared has_leader; has_leader is 1 exactly while some
\* worker is between the wait loop and the handoff, one at most; so a worker
\* busy with its connection never holds the leadership, and while it is busy
\* and the others are not, one of the others is the leader or free to
\* become it.
C28_HandoffBeforeWork ==
    /\ [](/\ Cardinality(Leaders) <= 1
          /\ (has_leader = 1) <=> (Leaders # {})
          /\ \A w \in Workers :
                (wpc[w] = "handle" /\ \A x \in Workers \ {w} : wpc[x] # "handle") =>
                    \E x \in Workers \ {w} : wpc[x] \in {"top", "woken", "accept", "release"})
    /\ [][\A w \in Workers :
            (wpc'[w] = "handle" /\ wpc[w] # "handle") =>
                (wpc[w] = "release" /\ has_leader = 1 /\ has_leader' = 0
                    /\ log'[wcfd'[w]] = <<>>)]_vars

\* C28 witness: a worker holds the first connection, nothing done on it yet,
\* while another worker has accepted the second one
C28_Witness ==
    \E w, x \in Workers :
        /\ w # x
        /\ wpc[w] = "handle" /\ wcfd[w] = 1 /\ log[1] = <<>>
        /\ wpc[x] = "release" /\ wcfd[x] = 2

\* the workers blocked in pthread_cond_wait, and those about to test
\* has_leader (at the top of the loop, or back from the wait)
Blocked == {w \in Workers : wpc[w] = "wait"}
Testing == {w \in Workers : wpc[w] \in {"top", "woken"}}

\* C36: the leadership is never lost.  In no reachable state is has_leader 0
\* with every worker blocked in the condition wait; while has_leader is 0
\* and some worker is blocked in the wait, some worker is about to test
\* has_leader; and whenever has_leader is 0 and some worker is in the wait or
\* at the top of the loop, some worker becomes the leader.
C36_LeaderProgress ==
    /\ [](has_leader = 0 => Blocked # Workers)
    /\ [](has_leader = 0 /\ Blocked # {} => Testing # {})
    /\ [](lf_waiters = Blocked)
    /\ (has_leader = 0 /\ Blocked \cup Testing # {}) ~> (has_leader = 1)

\* a follower is blocked in the wait while the leader is back from accept;
\* a connection has been handed over before, so the leadership has changed
\* hands already
C36_Witness ==
    \E w \in Workers :
        /\ wpc[w] = "release"
        /\ Blocked = Workers \ {w}
        /\ nconn >= 1
        /\ \E c \in Accepted : Closes(c) = 1

\* C37: a failed accept gives up the leadership like a successful one.  The
\* step that follows accept clears has_leader and releases one blocked
\* follower when there is one, whatever accept returned; after a failure the
\* worker goes back to the top of its loop with no connection, and nothing
\* is accepted, written, closed or routed in that step; after a success it
\* goes on to its connection.  has_leader is 1 only while a worker is in
\* accept or back from it and about to clear it, which it always can.
C37_FailedAcceptReleases ==
    /\ [][\A w \in Workers :
            (wpc[w] = "release" /\ wpc'[w] # "release") =>
                /\ has_leader' = 0
                /\ IF lf_waiters = {}
                     THEN lf_waiters' = {}
                     ELSE \E x \in lf_waiters :
                             lf_waiters' = lf_waiters \ {x} /\ wpc'[x] = "woken"
                /\ wcfd[w] < 0 =>
                      /\ wpc'[w] = "top" /\ wcfd'[w] = 0
                      /\ UNCHANGED <<nconn, log, wire, enq, aoq, sq, tasks>>
                /\ wcfd[w] > 0 => wpc'[w] = "handle" /\ wcfd'[w] = wcfd[w]]_vars
    /\ [](has_leader = 1 => \E w \in Workers :
             \/ wpc[w] = "accept"
             \/ wpc[w] = "release" /\ ENABLED LeaderRelease(w))
    /\ [](\A w \in Workers :
             /\ wpc[w] = "handle" => wcfd[w] \in Accepted
             /\ wpc[w] \in {"top", "wait", "woken", "accept"} => wcfd[w] = 0
             /\ wpc[w] = "release" => wcfd[w] = -1 \/ wcfd[w] \in Accepted)

\* no connection has been accepted, has_leader is 0 and a follower has been
\* released from the wait while the worker that led is back at the top: the
\* leader's accept failed and it handed the leadership over
C37_Witness ==
    \E w \in Workers : \E x \in Workers \ {w} :
        /\ nconn = 0
        /\ has_leader = 0
        /\ wpc[w] = "top" /\ wpc[x] = "woken"
        /\ lf_waiters = {}

(* ------------------------- claims on the sender ---------------------- *)

\* the sender is inside handle_send for connection c
SenderHolds(c) == sjob # <<>> /\ sjob[1].cfd = c /\ spc \in {"write", "close"}

\* C29: write_all goes on after an interrupted or a short write, so what is
\* on the socket is an initial segment of the text, in order, and all of it
\* once write_all has returned 0; after a write that fails otherwise the
\* sender stops writing, closes the connection once and frees the task, and
\* serves the SendTasks that follow: every SendTask the sender popped is
\* either the one it is working on or has been closed once by it, and the
\* sender is back at its mailbox.
C29_SenderWriteHandling ==
    /\ \A c \in Conns : tasks[c] # <<>> =>
          /\ IsPrefix(wire[c], tasks[c][1].text)
          /\ SenderHolds(c) => soff = Len(wire[c])
          /\ (Closes(c) = 1 /\ c \notin wfail) => wire[c] = tasks[c][1].text
    /\ \A i \in 1..Len(sendOrder) :
          \/ SenderHolds(sendOrder[i])
          \/ /\ Closes(sendOrder[i]) = 1
             /\ (sjob = <<>> \/ sjob[1].cfd # sendOrder[i])
    /\ spc \in {"pop", "write", "close"}

(* ----------------------- claims on the allocations ------------------- *)

\* C30: an allocation that fails on a request's way, for the graph, the
\* Request, a queue node, a result buffer or the SendTask, terminates the
\* process: once an allocation has failed the process is not running.
C30_AllocFailureFatal ==
    m_failed # {} => m_proc = "exited"

\* the connections accepted and not yet closed
OpenConns == {c \in Accepted : Closes(c) = 0}

\* the Requests that refer to connection c: in the algorithm mailboxes, and
\* in the hands of the algorithm handlers
RequestsOf(c) ==
    Cardinality({<<a, i>> \in AlgoAOs \X (1..MaxConn) :
                    i <= Len(aoq[a]) /\ aoq[a][i].cfd = c})
    + Cardinality({a \in AlgoAOs : aojob[a] # <<>> /\ aojob[a][1].cfd = c})

\* the SendTasks that refer to connection c: in the sender's mailbox, and in
\* the sender's hands
SendTasksOf(c) ==
    Cardinality({i \in 1..Len(sq) : sq[i].cfd = c})
    + Cardinality({i \in 1..Len(sjob) : sjob[i].cfd = c})

\* the items waiting in a mailbox that refer to connection c
QueuedOf(c) ==
    Cardinality({<<a, i>> \in AlgoAOs \X (1..MaxConn) :
                    i <= Len(aoq[a]) /\ aoq[a][i].cfd = c})
    + Cardinality({i \in 1..Len(sq) : sq[i].cfd = c})

\* all the items waiting in the mailboxes
QueuedItems ==
    Cardinality({<<a, i>> \in AlgoAOs \X (1..MaxConn) : i <= Len(aoq[a])}) + Len(sq)

\* the handler of connection c's Request is inside emit_and_send, past the push
Emitting(c) == \E a \in AlgoAOs : ao_sent[a] /\ aojob[a][1].cfd = c

\* C31 as stated: for each open connection, the mailboxes and the jobs being
\* handled hold together at most one Request or SendTask that refers to it,
\* and the queued items are never more than the open connections.
C31_Original ==
    /\ \A c \in OpenConns : RequestsOf(c) + SendTasksOf(c) <= 1
    /\ QueuedItems <= Cardinality(OpenConns)

\* C31: a connection has at most one Request and at most one SendTask, and at
\* most one of the two waits in a mailbox; the Request and the SendTask of a
\* connection exist together only while the handler is inside emit_and_send,
\* between the push of the SendTask and the free of the Request.  Every item
\* refers to an accepted connection, every queued one to an open connection,
\* and the queued items are never more than the open connections.
C31_OneItemPerConnection ==
    /\ \A c \in Conns :
          /\ RequestsOf(c) <= 1
          /\ SendTasksOf(c) <= 1
          /\ QueuedOf(c) <= 1
          /\ RequestsOf(c) + SendTasksOf(c) = 2 => Emitting(c)
          /\ RequestsOf(c) + SendTasksOf(c) > 0 => c \in Accepted
          /\ QueuedOf(c) > 0 => c \in OpenConns
    /\ QueuedItems <= Cardinality(OpenConns)

\* the Request of an open connection is still in its handler's hands while
\* the SendTask of the same connection waits in the sender's mailbox, and
\* another connection's Request waits in a mailbox
C31_Witness ==
    \E c \in OpenConns : \E d \in OpenConns \ {c} :
        /\ Emitting(c)
        /\ \E i \in 1..Len(sq) : sq[i].cfd = c
        /\ QueuedOf(d) = 1
        /\ RequestsOf(d) = 1

\* C32: the five algorithms leave V, E, adj and w of the graph they are
\* called with as they found them, in every step; euler_circuit takes edges
\* away in its own copy of the adjacency matrix only.
C32_GraphReadOnly ==
    [][/\ e_g' = e_g
       /\ a_g' = a_g
       /\ e_adj' # e_adj /\ e_adj # <<>> => e_adj' # e_g'.adj]_vars

\* euler_circuit has returned a circuit of a graph with edges: its copy of the
\* matrix is empty, the graph still has every edge, and one of the other
\* algorithms has returned on the same graph
C32_Witness ==
    /\ e_pc = "done" /\ e_ret = 1
    /\ e_g.E > 0
    /\ \A u, v \in 0..(e_g.V - 1) : e_adj[u][v] = 0
    /\ e_g.E = Cardinality(EdgeSet(e_g))
    /\ a_fn # "none" /\ a_g = e_g

\* the nodes linked from q->head, in order
RECURSIVE QueueList(_, _)
QueueList(n, k) == IF n = 0 \/ k = 0 THEN <<>> ELSE <<n>> \o QueueList(q_next[n], k - 1)

\* C33: a mailbox with several pushing threads and one popping thread.  The
\* items popped are, in order, the first of the items pushed, taken in the
\* order in which the pushes got the mutex (none is popped twice, none out of
\* order), and the items pushed and not yet popped are the ones linked from
\* the head; q_pop gets past its test with the queue non-empty only, and
\* never stays blocked on the condition once a push has linked an item and
\* left; outside the critical section head is NULL exactly when tail is NULL;
\* a push that has the mutex free before it is not held back by the length of
\* the queue; every push returns, and every item pushed is popped.
C33_MailboxSemantics ==
    /\ [](/\ Len(q_popped) <= Len(q_pushed)
          /\ q_popped = SubSeq(q_pushed, 1, Len(q_popped))
          /\ q_pc[Consumer] = "fixtail" =>
                /\ q_n[Consumer] # 0
                /\ Len(q_popped) < Len(q_pushed)
                /\ q_item[q_n[Consumer]] = q_pushed[Len(q_popped) + 1]
          /\ q_mtx = 0 =>
                /\ (q_hd = 0) <=> (q_tl = 0)
                /\ q_waiting => q_hd = 0
                /\ [i \in 1..(Len(q_pushed) - Len(q_popped)) |->
                       q_item[QueueList(q_hd, QProducers * QMaxPush)[i]]]
                     = SubSeq(q_pushed, Len(q_popped) + 1, Len(q_pushed))
          /\ \A t \in Producers : q_pc[t] = "lock" /\ q_mtx = 0 => ENABLED PushLock(t))
    /\ \A t \in Producers : (q_pc[t] = "lock") ~> (q_pc[t] = "idle")
    /\ \A i \in 1..(QProducers * QMaxPush) :
          (Len(q_pushed) >= i) ~> (Len(q_popped) >= i)

\* the popping thread has popped one item, blocked again on the empty queue
\* and been woken by a push; the pushes of both threads have gone in, two of
\* them with no pop in between, and two items are linked
C33_Witness ==
    /\ Len(q_pushed) = 3
    /\ Len(q_popped) = 1
    /\ {q_pushed[i][1] : i \in 1..3} = Producers
    /\ q_mtx = 0
    /\ q_hd # 0 /\ q_hd # q_tl
    /\ q_pc[Consumer] = "relock"

\* how many times connection c occurs in a sequence of connections
TimesIn(seq, c) == Cardinality({i \in 1..Len(seq) : seq[i] = c})

\* C34: each request is computed by the AO of the algorithm its header names
\* and by no other.  The five commands go to five different AOs, each bound
\* to the handler of its own algorithm; the Request of a connection is pushed
\* once, into the mailbox of its command's AO and into no other, popped by
\* that AO at most once, and handled once: the one SendTask built for the
\* connection ends with the body of the command's algorithm on the graph
\* built for that connection, and it exists once that AO is through with the
\* Request.
C34_ComputedByNamedAO ==
    /\ \A cmd \in Cmds : route_to_ao(cmd) \in AlgoAOs /\ ao_handle(route_to_ao(cmd)) = cmd
    /\ \A a \in AlgoAOs : route_to_ao(ao_handle(a)) = a
    /\ \A c \in Conns : \A a \in AlgoAOs :
          /\ TimesIn(pushOrder[a], c) =
                (IF enq[c] # <<>> /\ a = route_to_ao(enq[c][1].R.cmd) THEN 1 ELSE 0)
          /\ TimesIn(popOrder[a], c) <= TimesIn(pushOrder[a], c)
          /\ \A i \in 1..Len(aoq[a]) : aoq[a][i].cfd = c =>
                /\ enq[c] # <<>> /\ aoq[a][i] = enq[c][1].R
                /\ ao_handle(a) = aoq[a][i].cmd
          /\ (aojob[a] # <<>> /\ aojob[a][1].cfd = c) =>
                /\ enq[c] # <<>> /\ aojob[a][1] = enq[c][1].R
                /\ ao_handle(a) = aojob[a][1].cmd
                /\ tasks[c] = <<>>
    /\ \A c \in Conns :
          /\ Len(tasks[c]) <= 1
          /\ tasks[c] # <<>> =>
                /\ enq[c] # <<>>
                /\ tasks[c][1].cfd = c
                /\ tasks[c][1].text[Len(tasks[c][1].text)]
                      = BodyText(enq[c][1].R.cmd, enq[c][1].R.g)
                /\ enq[c][1].R.g = c
                /\ TimesPopped(c) = 1
          /\ (TimesPopped(c) = 1 /\ \A a \in AlgoAOs : aojob[a] = <<>>) => tasks[c] # <<>>

\* two requests for different algorithms, neither EULER nor MST, have been
\* computed, each by its own AO, while a third AO never got a Request
C34_Witness ==
    \E c \in Conns : \E d \in Conns \ {c} :
        /\ tasks[c] # <<>> /\ tasks[d] # <<>>
        /\ enq[c][1].R.cmd = "HAMILTON"
        /\ enq[d][1].R.cmd = "MAXCLIQUE"
        /\ popOrder["AO_HAM"] = <<c>> /\ popOrder["AO_MAXCLQ"] = <<d>>
        /\ pushOrder["AO_EULER"] = <<>>

\* C35: in the Leader-Follower server every request is run with the
\* algorithm named in its own header, whatever the other workers look up in
\* the meantime: a worker that holds a strategy holds the function of its
\* own command, and every request that ran an algorithm ran its own.
C35_StrategyStaysBound ==
    \A w \in Workers :
        /\ hc_S[w] = "&strat" => strat.run = TABLE[table_find(hc_cmd[w], 1)].run
        /\ \A i \in 1..Len(hc_ran[w]) :
              hc_ran[w][i].run # "ERR" =>
                  hc_ran[w][i].run = TABLE[table_find(hc_ran[w][i].cmd, 1)].run

(* ------------------------- claims on the parser ---------------------- *)

\* a token written as a number: an optional minus sign, then digits only
IsNumeral(t) ==
    LET d == IF t # <<>> /\ t[1] = "-" THEN Tail(t) ELSE t
    IN  d # <<>> /\ \A i \in 1..Len(d) : \E k \in 1..10 : DigitChars[k] = d[i]

\* the rejections of a header line h named by C6: fewer than 4 or more than
\* 5 tokens, unknown ALGO, unparsable E, V or SEED, a fifth token other than
\* -p, V < 1, E < 0, E > V(V-1)/2
HeaderBad(h) ==
    IF Len(h) < 4 \/ Len(h) > 5 THEN TRUE
    ELSE IF h[1] \notin {T_EULER, T_MST, T_MAXCLIQUE, T_COUNTCLQ3P, T_HAMILTON} THEN TRUE
    ELSE IF Len(h) = 5 /\ h[5] # T_p THEN TRUE
    ELSE LET et == IF h[2] = T_GRAPH THEN h[3] ELSE h[2]
             vt == IF h[2] = T_GRAPH THEN h[4] ELSE h[3]
         IN  IF ~IsIntTok(et) \/ ~IsIntTok(vt) THEN TRUE
             ELSE IF h[2] # T_GRAPH /\ ~IsNumeral(h[4]) THEN TRUE
             ELSE \/ IntOfTok(vt) < 1
                  \/ IntOfTok(et) < 0
                  \/ 2 * IntOfTok(et) > IntOfTok(vt) * (IntOfTok(vt) - 1)

\* the E and the V a GRAPH header announces
AnnouncedE(h) == IntOfTok(h[3])
AnnouncedV(h) == IntOfTok(h[4])

\* the rejections of an edge line named by C6: missing, malformed, an
\* endpoint out of range, a self-loop, a weight that is not positive
EdgeLineBad(last, V) ==
    \/ last.kind = "eof"
    \/ /\ last.kind = "line"
       /\ LET l == last.tok IN
          \/ Len(l) < 2
          \/ ~IsIntTok(l[1]) \/ ~IsIntTok(l[2])
          \/ (Len(l) >= 3 /\ (~IsIntTok(l[3]) \/ IntOfTok(l[3]) <= 0))
          \/ IntOfTok(l[1]) \notin 0..(V - 1)
          \/ IntOfTok(l[2]) \notin 0..(V - 1)
          \/ IntOfTok(l[1]) = IntOfTok(l[2])

\* the response lines that begin with "ERR "
ErrLines(text) == {i \in 1..Len(text) : text[i].first = "ERR"}

\* what a rejection leaves behind: one sendf_fd text with exactly one ERR
\* line, of which the socket got an initial segment; the connection closed
\* once; the graph, if one was built, freed; nothing routed
RejectedOutcome ==
    /\ p_pc = "done"
    /\ Cardinality(ErrLines(p_sent)) = 1
    /\ IsPrefix(p_wire, p_sent)
    /\ p_closed = 1
    /\ p_g = <<>>
    /\ p_freed = (IF p_loc.mode = "GRAPH" THEN 1 ELSE 0)
    /\ p_enq = <<>>

\* C6: every rejected request (a header or, in explicit mode, an edge line
\* with one of the listed faults, or a missing edge line) gets exactly one
\* response line beginning with "ERR ", its connection is closed, the graph
\* built so far is discarded and no Request is enqueued; and nothing else
\* makes the parser send anything.
C6_RejectedRequest ==
    /\ (p_pc # "header" /\ p_hdr.kind = "line" /\ HeaderBad(p_hdr.tok)) => RejectedOutcome
    /\ (p_last.kind # "none" /\ EdgeLineBad(p_last, AnnouncedV(p_hdr.tok)))
          => RejectedOutcome
    /\ p_sent # <<>> => RejectedOutcome

\* C6 witness: after an edge was added, a self-loop line was rejected: the
\* ERR line is on the socket, the graph is freed, the connection closed
C6_Witness ==
    /\ p_nread >= 2
    /\ p_last.kind = "line" /\ IsSelfLoopLine(p_last.tok, AnnouncedV(p_hdr.tok))
    /\ p_wire = p_sent /\ Len(p_sent) = 1
    /\ p_freed = 1 /\ p_closed = 1

\* C7 as stated: a duplicate edge line and a self-loop edge line produce no
\* error, and the request keeps being processed.
C7_Original ==
    (p_last.kind = "line" /\
        (p_last.dup \/ IsSelfLoopLine(p_last.tok, AnnouncedV(p_hdr.tok))))
      => (p_sent = <<>> /\ p_i = p_nread)

\* C7, amended: a duplicate edge line is silently dropped: no error, the
\* line counts as one of the E lines (i advances with every line read) and
\* the graph keeps one edge per distinct pair; a self-loop edge line is
\* rejected: "ERR invalid edge", the graph freed, the connection closed,
\* nothing enqueued.
C7_DuplicatesDroppedSelfLoopsRejected ==
    /\ (p_last.kind = "line" /\ p_last.dup) => (p_sent = <<>> /\ p_i = p_nread)
    /\ (p_loc.mode = "GRAPH" /\ p_g # <<>>) =>
          (p_i = p_nread /\ p_g[1].E = p_nread - p_ndup)
    /\ (p_last.kind = "line" /\ IsSelfLoopLine(p_last.tok, AnnouncedV(p_hdr.tok))) =>
          /\ RejectedOutcome
          /\ p_sent = ErrInvalidEdge(p_nread - 1, IntOfTok(p_last.tok[1]),
                                     IntOfTok(p_last.tok[2]))

\* C7 witness: a duplicate line was read and dropped, and the self-loop line
\* after it was rejected
C7_Witness ==
    /\ p_ndup >= 1
    /\ p_last.kind = "line" /\ IsSelfLoopLine(p_last.tok, AnnouncedV(p_hdr.tok))
    /\ p_sent # <<>> /\ p_closed = 1

\* the number of vertices of odd degree, as handle_euler counts them
OddDegreeCount(g) == Cardinality({i \in 0..(g.V - 1) : degree(g, i) % 2 # 0})

\* C8: in explicit mode the parser reads exactly E edge lines; a line that
\* repeats a pair already inserted (either order, any valid weight) raises
\* no error and counts as one of the E lines, so the graph dispatched has E
\* minus the number of repeats edges, at most E; and "EULER GRAPH 2 3" with
\* the lines "0 1", "0 1" dispatches a graph whose one edge is {0,1}, with
\* two vertices of odd degree.
C8_ExactlyELines ==
    /\ p_loc.mode = "GRAPH" => p_nread <= AnnouncedE(p_hdr.tok)
    /\ (p_last.kind = "line" /\ p_last.dup) => (p_sent = <<>> /\ p_nread <= p_i)
    /\ (p_loc.mode = "GRAPH" /\ p_pc = "dispatch") => p_nread = AnnouncedE(p_hdr.tok)
    /\ (p_loc.mode = "GRAPH" /\ p_enq # <<>>) =>
          /\ p_nread = AnnouncedE(p_hdr.tok)
          /\ p_enq[1].R.g.E = AnnouncedE(p_hdr.tok) - p_ndup
          /\ p_enq[1].R.g.E <= AnnouncedE(p_hdr.tok)
          /\ p_sent = <<>> /\ p_closed = 0 /\ Len(p_enq) = 1
    /\ (/\ p_hdr = LineRead(<<T_EULER, T_GRAPH, Num(2), Num(3)>>)
        /\ p_last = [LineRead(<<Num(0), Num(1)>>) EXCEPT !.dup = TRUE]
        /\ p_enq # <<>>) =>
          /\ p_enq[1].R.g.E = 1
          /\ p_enq[1].R.g.adj = GraphOf(3, {<<0, 1>>}).adj
          /\ p_enq[1].ao = "AO_EULER"
          /\ connected_among_non_isolated(p_enq[1].R.g) = 1
          /\ OddDegreeCount(p_enq[1].R.g) = 2

\* C8 witness: the request "EULER GRAPH 2 3" with the lines "0 1", "0 1" has
\* been dispatched
C8_Witness ==
    /\ p_hdr = LineRead(<<T_EULER, T_GRAPH, Num(2), Num(3)>>)
    /\ p_last = [LineRead(<<Num(0), Num(1)>>) EXCEPT !.dup = TRUE]
    /\ p_nread = 2 /\ p_ndup = 1
    /\ p_enq # <<>>

\* the edges a graph holds, counted from its adjacency matrix
EdgesHeld(g) ==
    Cardinality({p \in (0..(g.V - 1)) \X (0..(g.V - 1)) :
                    p[1] < p[2] /\ g.adj[p[1]][p[2]] # 0})

\* C22: a Request dispatched without -p has no prefix; with -p its prefix is
\* the line "Graph: V=<V>, E=<E>", the line "Adjacency matrix:" and V rows of
\* V entries, printed from the graph the Request carries: the E printed is
\* the number of edges that graph holds (the E announced less the repeated
\* lines in explicit mode) and row i lists adj[i][0..V-1].
C22_PrefixFromBuiltGraph ==
    (p_pc = "done" /\ p_enq # <<>>) =>
        LET R == p_enq[1].R
            V == R.g.V
        IN  IF ~p_loc.want_print THEN R.prefix = <<>>
            ELSE /\ Len(R.prefix) = 1
                 /\ LET t == prefix_text(R.prefix[1].g)
                    IN  /\ Len(t) = 2 + V
                        /\ t[1] = PrefixLine("Graph: V=%d, E=%d", <<p_loc.V, EdgesHeld(R.g)>>)
                        /\ t[2] = PrefixLine("Adjacency matrix:", <<>>)
                        /\ \A i \in 0..(V - 1) :
                              /\ Len(t[3 + i].args) = V
                              /\ \A j \in 0..(V - 1) : t[3 + i].args[j + 1] = R.g.adj[i][j]
                 /\ p_loc.mode = "GRAPH" =>
                        prefix_text(R.prefix[1].g)[1].args[2] = AnnouncedE(p_hdr.tok) - p_ndup

\* C22 witness: an explicit request with -p that announced two edges and
\* repeated one has been dispatched
C22_Witness ==
    /\ p_pc = "done" /\ p_enq # <<>>
    /\ p_loc.want_print /\ p_loc.mode = "GRAPH"
    /\ AnnouncedE(p_hdr.tok) = 2 /\ p_ndup = 1
    /\ p_enq[1].R.g.E = 1

(* ----------------------- claims on the algorithms -------------------- *)

\* every vertex of g is joined to vertex 0 by a path
FullyConnected(g) == Reachable(g, {0}) = 0..(g.V - 1)

\* Kruskal: take the edges by ascending weight, keep an edge when its ends
\* lie in different components; comp labels the components
WEdges(g) == {p \in PairsOf(g.V) : g.adj[p[1]][p[2]] # 0}
RECURSIVE Kruskal(_, _, _)
Kruskal(g, rest, comp) ==
    IF rest = {} THEN {}
    ELSE LET e == CHOOSE x \in rest :
                    \A y \in rest : g.w[x[1]][x[2]] <= g.w[y[1]][y[2]]
         IN  IF comp[e[1]] # comp[e[2]]
               THEN {e} \cup Kruskal(g, rest \ {e},
                        [v \in DOMAIN comp |->
                            IF comp[v] = comp[e[2]] THEN comp[e[1]] ELSE comp[v]])
               ELSE Kruskal(g, rest \ {e}, comp)
KruskalEdges(g) == Kruskal(g, WEdges(g), [v \in 0..(g.V - 1) |-> v])

\* the weights of the edges in S add up to t (counted down from t, so that
\* no sum beyond t is formed)
RECURSIVE WeighsExactly(_, _, _)
WeighsExactly(g, S, t) ==
    IF S = {} THEN t = 0
    ELSE LET e == CHOOSE x \in S : TRUE
         IN  IF g.w[e[1]][e[2]] > t THEN FALSE
             ELSE WeighsExactly(g, S \ {e}, t - g.w[e[1]][e[2]])

\* C11: for every connected graph with positive weights mst_weight_prim
\* returns the total weight of the spanning tree Kruskal builds; for V = 1
\* that is 0.
C11_PrimEqualsKruskal ==
    (a_fn = "mst_weight_prim" /\ FullyConnected(a_g))
      => WeighsExactly(a_g, KruskalEdges(a_g), a_ret.val)

\* C12: mst_weight_prim returns -1 iff the graph is not fully connected, for
\* every weight in 1..INT_MAX; a connected graph is never answered
\* "MST: graph is not connected".
C12_SentinelIffDisconnected ==
    a_fn = "mst_weight_prim" =>
      /\ (a_ret.val = -1) <=> ~FullyConnected(a_g)
      /\ FullyConnected(a_g) => a_ret.body # MstNotConnected

\* the sets of vertices that are pairwise adjacent in g
Cliques(g) ==
    {C \in SUBSET (0..(g.V - 1)) : \A u, v \in C : u # v => {u, v} \in EdgeSet(g)}
CliqueNumber(g) ==
    CHOOSE k \in 0..g.V :
        /\ \E C \in Cliques(g) : Cardinality(C) = k
        /\ \A C \in Cliques(g) : Cardinality(C) <= k

\* C13: max_clique returns the clique number k of G, and the members
\* reported are k distinct vertices, pairwise adjacent, in ascending order.
C13_MaxClique ==
    a_fn = "max_clique" =>
      /\ a_ret.k = CliqueNumber(a_g)
      /\ a_ret.got = a_ret.k
      /\ Len(a_ret.cl) = a_ret.k
      /\ \A i, j \in 1..Len(a_ret.cl) : i < j => a_ret.cl[i] < a_ret.cl[j]
      /\ {a_ret.cl[i] : i \in 1..Len(a_ret.cl)} \in Cliques(a_g)
      /\ a_g = GraphOf(4, PairsOf(4)) => a_ret.cl = <<0, 1, 2, 3>>

\* C13 witness: max_clique has returned on a graph of 5 vertices whose
\* largest clique has 3 members and does not hold vertex 0
C13_Witness ==
    /\ a_fn = "max_clique"
    /\ a_g.V = 5
    /\ a_ret.k = 3
    /\ a_ret.cl[1] > 0
    /\ a_g.E >= 5

\* C23 as stated: on a graph without edges max_clique returns k = 0 and the
\* body has no "Vertices:" line.
C23_Original ==
    (a_fn = "max_clique" /\ a_g.E = 0) =>
        /\ a_ret.k = 0
        /\ handle_maxclq_body(a_ret) = <<<<"Max clique size = ", 0>>>>

\* C23: on a graph without edges, whatever V >= 1, max_clique returns k = 1
\* with got = 1, the clique being vertex 0 alone, and the body is
\* "Max clique size = 1" followed by "Vertices: 0".
C23_EdgelessMaxClique ==
    (a_fn = "max_clique" /\ a_g.E = 0) =>
        /\ a_ret.k = 1 /\ a_ret.got = 1
        /\ a_ret.cl = <<0>>
        /\ handle_maxclq_body(a_ret) = <<<<"Max clique size = ", 1>>, <<"Vertices: ", 0>>>>

\* C23 witness: max_clique has returned on the graph of five vertices and
\* no edge
C23_Witness ==
    /\ a_fn = "max_clique"
    /\ a_g.V = 5 /\ a_g.E = 0
    /\ Len(handle_maxclq_body(a_ret)) = 2

\* the vertices of C are pairwise adjacent in g
IsClique(g, C) == \A x, y \in C : x # y => g.adj[x][y] = 1

\* C39: at every call of BK_recurse made by max_clique, R is a clique, R, P
\* and X are pairwise disjoint, every vertex of P or X is adjacent to every
\* vertex of R, and best_R is a clique of best_size vertices; the best
\* clique changes only in a call with P and X both empty, and then to R,
\* which is strictly larger than the one held; it never changes in any
\* other call, and what the calls end with is what max_clique returns.
C39_BronKerboschInvariants ==
    a_fn = "max_clique" =>
      \E t \in {max_clique_calls(a_g)} :
        /\ t.S.best_size = a_ret.k
        /\ bs_ascending(t.S.best_R) = a_ret.cl
        /\ t.calls[1].R = {} /\ t.calls[1].P = 0..(a_g.V - 1) /\ t.calls[1].X = {}
        /\ \A i \in 1..Len(t.calls) :
              \E c \in {t.calls[i]} :
                /\ IsClique(a_g, c.R)
                /\ c.R \cap c.P = {} /\ c.R \cap c.X = {} /\ c.P \cap c.X = {}
                /\ \A x \in c.P \cup c.X : \A y \in c.R : a_g.adj[x][y] = 1
                /\ IsClique(a_g, c.S.best_R)
                /\ Cardinality(c.S.best_R) = c.S.best_size
                /\ c.T # c.S =>
                      /\ c.P = {} /\ c.X = {}
                      /\ c.T.best_R = c.R
                      /\ c.T.best_size = Cardinality(c.R)
                      /\ c.T.best_size > c.S.best_size
                /\ i < Len(t.calls) => t.calls[i + 1].S = c.T
                /\ i = Len(t.calls) => t.S = c.T

\* max_clique has returned on a graph of five vertices where the best clique
\* was replaced twice and a later call found a clique of the size already
\* held, with P and X empty, and left the best one alone; some call was made
\* with a vertex in X
C39_Witness ==
    /\ a_fn = "max_clique"
    /\ a_g.V = 5
    /\ \E t \in {max_clique_calls(a_g)} :
          /\ Cardinality({i \in 1..Len(t.calls) : t.calls[i].T # t.calls[i].S}) >= 2
          /\ \E i \in 1..Len(t.calls) :
                /\ t.calls[i].P = {} /\ t.calls[i].X = {}
                /\ Cardinality(t.calls[i].R) = t.calls[i].S.best_size
                /\ t.calls[i].R # t.calls[i].S.best_R
          /\ \E i \in 1..Len(t.calls) : t.calls[i].X # {}

\* C14: count_cliques_3plus returns the number of vertex sets of size >= 3
\* that are pairwise adjacent, 0 when V <= 2, and 5 on K4.
C14_CountCliques ==
    a_fn = "count_cliques_3plus" =>
      /\ a_ret.cnt = Cardinality({C \in Cliques(a_g) : Cardinality(C) >= 3})
      /\ a_g.V <= 2 => a_ret.cnt = 0
      /\ a_g = GraphOf(4, PairsOf(4)) => a_ret.cnt = 5

\* C14 witness: the count has been returned for a graph that holds a clique
\* of four vertices and a triangle outside it
C14_Witness ==
    /\ a_fn = "count_cliques_3plus"
    /\ a_g.V = 5
    /\ a_ret.cnt = 6
    /\ a_g.E = 8

\* c is a Hamiltonian cycle of g: V >= 3, V + 1 entries, closed, every
\* vertex once among the first V, consecutive entries adjacent
IsHamiltonCycle(g, c) ==
    /\ g.V >= 3
    /\ Len(c) = g.V + 1
    /\ c[1] = c[g.V + 1]
    /\ {c[i] : i \in 1..g.V} = 0..(g.V - 1)
    /\ \A i \in 1..g.V : {c[i], c[i + 1]} \in EdgeSet(g)

\* the vertices in rest can be arranged into a path of g that leaves from
\* last and whose end is joined to 0
RECURSIVE HamiltonPathBack(_, _, _)
HamiltonPathBack(g, last, rest) ==
    IF rest = {} THEN {last, 0} \in EdgeSet(g)
    ELSE \E v \in rest : {last, v} \in EdgeSet(g) /\ HamiltonPathBack(g, v, rest \ {v})

\* g has a Hamiltonian cycle: a cycle through all its V >= 3 vertices, which
\* may be taken to start at vertex 0
HasHamiltonCycle(g) == g.V >= 3 /\ HamiltonPathBack(g, 0, 1..(g.V - 1))

\* C15: hamilton_cycle returns success iff G has a Hamiltonian cycle, and on
\* success the sequence has V + 1 entries, starts and ends at the same
\* vertex, visits every vertex once and every consecutive pair, the closing
\* one included, is an edge.
C15_HamiltonCycle ==
    a_fn = "hamilton_cycle" =>
      /\ (a_ret.ret = 1) <=> HasHamiltonCycle(a_g)
      /\ a_ret.ret = 1 => (IsHamiltonCycle(a_g, a_ret.cycle) /\ a_ret.len = a_g.V + 1)

\* C15 witness: a cycle was returned for a graph of 5 vertices that is not
\* complete and in which the search had to leave the ascending order
C15_Witness ==
    /\ a_fn = "hamilton_cycle"
    /\ a_g.V = 5 /\ a_g.E <= 6
    /\ a_ret.ret = 1
    /\ a_ret.cycle # <<0, 1, 2, 3, 4, 0>>

\* the Hamiltonian cycles of g that extend the path p from vertex 0 through
\* the vertices of rest
RECURSIVE HamiltonCyclesFrom(_, _, _)
HamiltonCyclesFrom(g, p, rest) ==
    IF rest = {}
      THEN IF {p[Len(p)], 0} \in EdgeSet(g) THEN {Append(p, 0)} ELSE {}
      ELSE UNION {HamiltonCyclesFrom(g, Append(p, v), rest \ {v}) :
                    v \in {x \in rest : {p[Len(p)], x} \in EdgeSet(g)}}

HamiltonCycles(g) == IF g.V < 3 THEN {} ELSE HamiltonCyclesFrom(g, <<0>>, 1..(g.V - 1))

\* a comes before b in the lexicographic order, or is b
LexLeq(a, b) ==
    \/ a = b
    \/ \E i \in 1..Len(a) : a[i] < b[i] /\ \A j \in 1..(i - 1) : a[j] = b[j]

\* C27: hamilton_cycle returns the lexicographically least of the
\* Hamiltonian cycles of G that start at vertex 0 (0 1 2 3 4 0 on the cycle
\* 0-1-2-3-4-0 with the chord 0-2), and none when V < 3 or a vertex has
\* degree below 2.
C27_HamiltonTieBreak ==
    a_fn = "hamilton_cycle" =>
      /\ a_ret.ret = 1 =>
            /\ a_ret.cycle \in HamiltonCycles(a_g)
            /\ a_ret.cycle[1] = 0
            /\ \A c \in HamiltonCycles(a_g) : LexLeq(a_ret.cycle, c)
      /\ a_ret.ret = 0 => HamiltonCycles(a_g) = {}
      /\ (a_g.V < 3 \/ \E v \in 0..(a_g.V - 1) : DegreeOf(a_g, v) < 2) => a_ret.ret = 0
      /\ a_g = GraphOf(5, {<<0, 1>>, <<1, 2>>, <<2, 3>>, <<3, 4>>, <<0, 4>>, <<0, 2>>}) =>
            a_ret.cycle = <<0, 1, 2, 3, 4, 0>>

\* C27 witness: the cycle returned is the least of four or more that start
\* at vertex 0, and does not go from 0 to 1
C27_Witness ==
    /\ a_fn = "hamilton_cycle"
    /\ a_ret.ret = 1
    /\ Cardinality(HamiltonCycles(a_g)) >= 4
    /\ a_ret.cycle[2] = 2

\* C16: connected_among_non_isolated returns true iff the subgraph induced
\* by the vertices of degree > 0 is connected, and true when G has no edge.
C16_ConnectedAmongNonIsolated ==
    a_fn = "connected_among_non_isolated" =>
      /\ (a_ret.ok = 1) <=> ConnectedNonIsolated(a_g)
      /\ a_ret.ok \in {0, 1}
      /\ a_g.E = 0 => a_ret.ok = 1

\* C16 witness: true was returned for a graph with an isolated vertex below
\* the first vertex that has an edge
C16_Witness ==
    /\ a_fn = "connected_among_non_isolated"
    /\ a_g.V = 5 /\ a_g.E >= 3
    /\ a_g.adj[0] = [j \in 0..4 |-> 0]
    /\ a_ret.ok = 1

====
